---- MODULE Spec2Model ----
(***************************************************************************)
(* SagaCraft: the event bus (pyport/core/event_bus.rs), the quest engine   *)
(* (systems/quests.rs) and the first-responder command dispatch of         *)
(* AdventureGame (game_state.rs) with the player's four systems.           *)
(***************************************************************************)
EXTENDS Integers, Sequences, FiniteSets, TLC

VARIABLES
    \* EventBus
    subscriptions,            \* event name -> Vec<EventSubscription>
    wildcard_subscriptions,   \* Vec<EventSubscription>
    enable_history,           \* bool, fixed at EventBus::new
    history,                  \* Vec<Event>
    calls,                    \* the subscriptions whose handlers the last bus call ran, in call order
    event                     \* the Event the last bus call returned (NoEvent: it returned none)

VARIABLES
    \* QuestSystem
    quest_system,             \* [tracker: QuestTracker, available_quests: id -> Quest]
    now,                      \* the clock chrono::Utc::now reads
    ret                       \* the last quest call and what it returned

VARIABLES
    \* AdventureGame
    game,                     \* the AdventureGame: world, player, turn_count, systems, quests
    command_text,             \* the text of the last process_command call
    output,                   \* the lines the last process_command call returned
    invoked                   \* the systems whose on_command that call ran, in call order

VARIABLES
    \* a Quest held by a caller
    staged_quest              \* the Quest that advance_stage and is_complete are called on

VARIABLES
    \* Engine
    engine,                   \* [state: GameState, systems: the systems' names in list order]
    step_event,               \* the Command of the last Engine::step call
    step_out,                 \* what that call returned: [lines, panic, invoked]
    parsed                    \* the last Command::parse call: [called, input, ok, cmd]

VARIABLES
    \* Adventure
    adventure,                \* the Adventure a caller holds
    json_file,                \* the JSON file at the path: [text, written_by], written_by None when there is none
    adv_ret                   \* the last call on the Adventure: [op, ok, kind, msg, value]

VARIABLES
    \* the services of pyport
    service,                  \* the service a caller holds: an IOService beside the file at
                              \* the path asked for, a SystemRegistry or a ConfigService
    svc_ret,                  \* the last call on it: [op, before, arg, ok, value]
    set_keys                  \* the keys ConfigService::set was called with so far

busVars == <<subscriptions, wildcard_subscriptions, enable_history, history,
             calls, event>>

questVars == <<quest_system, now, ret>>

gameVars == <<game, command_text, output, invoked>>

stageVars == <<staged_quest>>

engineVars == <<engine, step_event, step_out, parsed>>

advVars == <<adventure, json_file, adv_ret>>

serviceVars == <<service, svc_ret, set_keys>>

vars == <<busVars, questVars, gameVars, stageVars, engineVars, advVars, serviceVars>>

None == "None"

(***************************************************************************)
(* Bounds                                                                  *)
(***************************************************************************)
MaxSubs == 3        \* subscriptions held by a bus without history
MaxHistSubs == 1    \* subscriptions held by a bus that may keep history
MaxPublish == 2     \* events in the history log
MaxClock == 1       \* the last reading of the clock
MaxQuestHistory == 3  \* records in the quest history log
MaxSystems == 3     \* systems registered with the game
MaxTurns == 2       \* moves the player makes
MaxStages == 2      \* stages of a quest that a caller builds
MaxEngineSystems == 3  \* systems in an Engine's list
MaxRooms == 2       \* rooms of an adventure that a caller builds
MaxLevel == 8       \* levels of players and of quest givers
MaxExperience == 100 \* experience points of a reward
MaxCount == 100     \* the count an objective has reached
MaxInventory == 3    \* ids in the player's inventory list
MaxAmount == 2      \* the amount of one progress call

(***************************************************************************)
(* Strings that are compared are sequences of bytes: "ab" is <<97, 98>>.   *)
(***************************************************************************)
RECURSIVE StrLess(_, _)
StrLess(a, b) ==
    IF a = <<>> THEN b # <<>>
    ELSE IF b = <<>> THEN FALSE
    ELSE IF a[1] # b[1] THEN a[1] < b[1]
    ELSE StrLess(Tail(a), Tail(b))

PluginNames == { <<97, 98>>, <<98>> }         \* "ab", "b"

Priorities == {"Critical", "High", "Normal", "Low"}

PriorityRank(p) ==
    CASE p = "Critical" -> 0
      [] p = "High"     -> 10
      [] p = "Normal"   -> 50
      [] p = "Low"      -> 100

Wildcard == "*"
EventNames == {"game.test", "game.other"}     \* the names that are published
SubscribedNames == {"game.test", Wildcard}    \* the names that are subscribed to

\* A handler either only records that it ran, or records it and calls event.cancel().
Handlers == {"record", "cancel"}

EventSubscription ==
    [event_name : SubscribedNames, plugin_name : PluginNames,
     priority : Priorities, handler : Handlers]

\* (priority, plugin_name) compared as a tuple
KeyLess(p1, n1, p2, n2) ==
    \/ PriorityRank(p1) < PriorityRank(p2)
    \/ PriorityRank(p1) = PriorityRank(p2) /\ StrLess(n1, n2)

\* a sort key that forgets the subscriber identifier
PriorityOnlyLess(a, b) == PriorityRank(a.priority) < PriorityRank(b.priority)

sort_key_less(a, b) == KeyLess(a.priority, a.plugin_name, b.priority, b.plugin_name)

\* slice::sort_by with the (priority, plugin_name) key; it is stable: x goes after
\* every element that is not greater than it
RECURSIVE InsertBy(_, _)
InsertBy(sorted, x) ==
    IF sorted = <<>> THEN <<x>>
    ELSE IF sort_key_less(x, sorted[1]) THEN <<x>> \o sorted
    ELSE <<sorted[1]>> \o InsertBy(Tail(sorted), x)

RECURSIVE SortBy(_)
SortBy(s) ==
    IF s = <<>> THEN <<>>
    ELSE InsertBy(SortBy(SubSeq(s, 1, Len(s) - 1)), s[Len(s)])

NoEvent == [name |-> None, source |-> None, cancellable |-> FALSE, cancelled |-> FALSE]

NewEvent(name, cancellable) ==
    [name |-> name, source |-> "system", cancellable |-> cancellable, cancelled |-> FALSE]

\* cancel() that does not look at the cancellable flag
CancelAlways(e) == [e EXCEPT !.cancelled = TRUE]

EventCancel(e) == IF e.cancellable THEN [e EXCEPT !.cancelled = TRUE] ELSE e

\* a dispatch loop that never sees the cancellation
NeverCancelled(e) == FALSE

IsCancelled(e) == e.cancelled

Subscribe(event_name, handler, priority, plugin_name) ==
    LET subscription == [event_name |-> event_name, plugin_name |-> plugin_name,
                         priority |-> priority, handler |-> handler]
    IN  /\ IF event_name = Wildcard
           THEN /\ wildcard_subscriptions' =
                       SortBy(Append(wildcard_subscriptions, subscription))
                /\ UNCHANGED subscriptions
           ELSE /\ subscriptions' =
                       [subscriptions EXCEPT ![event_name] =
                           SortBy(Append(@, subscription))]
                /\ UNCHANGED wildcard_subscriptions
        /\ calls' = <<>>
        /\ event' = NoEvent
        /\ UNCHANGED <<enable_history, history>>

\* the plan's entries, (priority, plugin name, target), for a list of subscriptions
Targets(list, kind) ==
    [i \in 1..Len(list) |->
        [priority |-> list[i].priority, plugin_name |-> list[i].plugin_name,
         target |-> <<kind, i>>]]

\* a plan that runs the wildcard subscriptions as a second pass
PlanTwoPasses(event_name) ==
    SortBy(Targets(subscriptions[event_name], "Specific"))
        \o SortBy(Targets(wildcard_subscriptions, "Wildcard"))

\* the execution plan: the specific targets, then the wildcard ones, sorted as one list
Plan(event_name) ==
    SortBy(Targets(subscriptions[event_name], "Specific")
               \o Targets(wildcard_subscriptions, "Wildcard"))

TargetSub(event_name, target) ==
    IF target[1] = "Wildcard" THEN wildcard_subscriptions[target[2]]
    ELSE subscriptions[event_name][target[2]]

\* the handler of a subscription, run on the event
RunHandler(sub, e) == IF sub.handler = "cancel" THEN EventCancel(e) ELSE e

\* the loop over the plan: stops at the first entry reached with the event cancelled
RECURSIVE RunPlan(_, _, _, _)
RunPlan(event_name, plan, e, ran) ==
    IF plan = <<>> \/ IsCancelled(e) THEN [event |-> e, calls |-> ran]
    ELSE LET sub == TargetSub(event_name, plan[1].target)
         IN  RunPlan(event_name, Tail(plan), RunHandler(sub, e), Append(ran, sub))

Publish(event_name, cancellable) ==
    LET e0  == NewEvent(event_name, cancellable)
        res == RunPlan(event_name, Plan(event_name), e0, <<>>)
    IN  /\ history' = IF enable_history THEN Append(history, e0) ELSE history
        /\ calls' = res.calls
        /\ event' = res.event
        /\ UNCHANGED <<subscriptions, wildcard_subscriptions, enable_history>>

ClearHistory ==
    /\ history' = <<>>
    /\ calls' = <<>>
    /\ event' = NoEvent
    /\ UNCHANGED <<subscriptions, wildcard_subscriptions, enable_history>>

ClearAllSubscriptions ==
    /\ subscriptions' = [n \in EventNames |-> <<>>]
    /\ wildcard_subscriptions' = <<>>
    /\ calls' = <<>>
    /\ event' = NoEvent
    /\ UNCHANGED <<enable_history, history>>

\* history() that keeps the oldest entries
HistoryOldest(event_name, limit) ==
    IF ~enable_history THEN <<>>
    ELSE LET items == IF event_name = None THEN history
                      ELSE SelectSeq(history, LAMBDA e : e.name = event_name)
         IN  IF Len(items) > limit THEN SubSeq(items, 1, limit) ELSE items

\* EventBus::history(event_name, limit)
History(event_name, limit) ==
    IF ~enable_history THEN <<>>
    ELSE LET items == IF event_name = None THEN history
                      ELSE SelectSeq(history, LAMBDA e : e.name = event_name)
         IN  IF Len(items) > limit
             THEN SubSeq(items, Len(items) - limit + 1, Len(items))
             ELSE items

(***************************************************************************)
(* Quest engine (systems/quests.rs).  Option values are sequences: None is *)
(* <<>> and Some(x) is <<x>>.  A map is a function on its set of keys.     *)
(***************************************************************************)
Some(x) == <<x>>

QuestObjective(obj_type, target, required_count) ==
    [obj_type |-> obj_type, target |-> target, required_count |-> required_count,
     current_count |-> 0, is_optional |-> FALSE]

ObjectiveIsComplete(o) == o.current_count >= o.required_count

\* a stage is its list of objectives
StageIsComplete(objectives) ==
    \A i \in 1..Len(objectives) :
        ~objectives[i].is_optional => ObjectiveIsComplete(objectives[i])

Quest(quest_id, title, prerequisites, stages) ==
    [quest_id |-> quest_id, title |-> title, prerequisites |-> prerequisites,
     stages |-> stages, status |-> "Available", acceptance_time |-> <<>>,
     completion_time |-> <<>>, current_stage_index |-> 0,
     quest_giver_level |-> 1,
     rewards |-> [experience_points |-> 0, gold |-> 0, items |-> <<>>,
                  reputation_changes |-> <<>>, special_rewards |-> <<>>]]

\* stages.get(current_stage_index); the index counts from 0
GetCurrentStage(q) ==
    IF q.current_stage_index < Len(q.stages)
    THEN Some(q.stages[q.current_stage_index + 1]) ELSE <<>>

QuestIsComplete(q) ==
    /\ q.current_stage_index >= Len(q.stages) - 1
    /\ GetCurrentStage(q) # <<>>
    /\ StageIsComplete(GetCurrentStage(q)[1])

MarkComplete(q, t) == [q EXCEPT !.status = "Completed", !.completion_time = Some(t)]

MarkFailed(q, t) == [q EXCEPT !.status = "Failed", !.completion_time = Some(t)]

\* usize::MAX; the comparisons of the model need it only to exceed every stage index
UsizeMax == 65535

\* a - b on usize: the difference, or when b > a what the build makes of the
\* overflow: a panic (<<>>, overflow checks on) or the wrapped value (checks off)
UsizeSub(a, b) == IF a >= b THEN {Some(a - b)} ELSE {<<>>, Some(a - b + UsizeMax + 1)}

\* Quest::advance_stage: the outcomes [quest, ok, panic]
AdvanceStage(q) ==
    { IF last = <<>> THEN [quest |-> q, ok |-> FALSE, panic |-> TRUE]
      ELSE IF q.current_stage_index < last[1]
           THEN [quest |-> [q EXCEPT !.current_stage_index = @ + 1], ok |-> TRUE, panic |-> FALSE]
           ELSE [quest |-> q, ok |-> FALSE, panic |-> FALSE]
      : last \in UsizeSub(Len(q.stages), 1) }

\* Quest::is_complete as a call: the outcomes [ok, panic]
IsComplete(q) ==
    { IF last = <<>> THEN [ok |-> FALSE, panic |-> TRUE]
      ELSE [ok |-> /\ q.current_stage_index >= last[1]
                   /\ GetCurrentStage(q) # <<>>
                   /\ StageIsComplete(GetCurrentStage(q)[1]),
            panic |-> FALSE]
      : last \in UsizeSub(Len(q.stages), 1) }

CanAccept(q, completed_quests) == \A prereq \in q.prerequisites : prereq \in completed_quests

NewTracker ==
    [active_quests |-> <<>>, completed_quests |-> {}, failed_quests |-> {},
     quest_history |-> <<>>]

MapInsert(m, k, v) == [x \in DOMAIN m \cup {k} |-> IF x = k THEN v ELSE m[x]]
MapRemove(m, k) == [x \in DOMAIN m \ {k} |-> m[x]]

\* a record_history that puts the new record in front of the log
RecordHistoryInFront(tr, quest_id, status, t) ==
    [tr EXCEPT !.quest_history = <<<<quest_id, status, t>>>> \o @]

RecordHistory(tr, quest_id, status, t) ==
    [tr EXCEPT !.quest_history = Append(@, <<quest_id, status, t>>)]

\* QuestTracker::accept_quest: [tracker, ok]
TrackerAcceptQuest(tr, quest, t) ==
    IF quest.quest_id \in DOMAIN tr.active_quests \/ quest.quest_id \in tr.completed_quests
    THEN [tracker |-> tr, ok |-> FALSE]
    ELSE LET q == [quest EXCEPT !.status = "Active", !.acceptance_time = Some(t)]
         IN  [tracker |-> RecordHistory(
                              [tr EXCEPT !.active_quests = MapInsert(@, q.quest_id, q)],
                              q.quest_id, "Active", t),
              ok |-> TRUE]

\* QuestTracker::complete_quest: [tracker, ok]
TrackerCompleteQuest(tr, quest_id, t) ==
    IF quest_id \in DOMAIN tr.active_quests
    THEN [tracker |-> RecordHistory(
                          [tr EXCEPT !.completed_quests = @ \cup {quest_id},
                                     !.active_quests =
                                         MapRemove([@ EXCEPT ![quest_id] = MarkComplete(@, t)],
                                                   quest_id)],
                          quest_id, "Completed", t),
          ok |-> TRUE]
    ELSE [tracker |-> tr, ok |-> FALSE]

\* a fail_quest that refuses a quest whose objectives are done
TrackerFailUnfinished(tr, quest_id, t) ==
    IF quest_id \in DOMAIN tr.active_quests /\ ~QuestIsComplete(tr.active_quests[quest_id])
    THEN [tracker |-> RecordHistory(
                          [tr EXCEPT !.failed_quests = @ \cup {quest_id},
                                     !.active_quests = MapRemove(@, quest_id)],
                          quest_id, "Failed", t),
          ok |-> TRUE]
    ELSE [tracker |-> tr, ok |-> FALSE]

\* QuestTracker::fail_quest: [tracker, ok]
TrackerFailQuest(tr, quest_id, t) ==
    IF quest_id \in DOMAIN tr.active_quests
    THEN [tracker |-> RecordHistory(
                          [tr EXCEPT !.failed_quests = @ \cup {quest_id},
                                     !.active_quests =
                                         MapRemove([@ EXCEPT ![quest_id] = MarkFailed(@, t)],
                                                   quest_id)],
                          quest_id, "Failed", t),
          ok |-> TRUE]
    ELSE [tracker |-> tr, ok |-> FALSE]

NewQuestSystem == [tracker |-> NewTracker, available_quests |-> <<>>]

\* the "type" strings of the adventure file's objectives
ObjectiveTypeOf(type) ==
    CASE type = "kill_monster" -> "Kill"
      [] type = "collect_item" -> "Collect"
      [] type = "reach_room"   -> "Explore"
      [] type = "talk_to_npc"  -> "Talk"
      [] OTHER                 -> "Discover"

\* id.to_string() for the ids of the model's adventure
IdToString(id) == CASE id = 0 -> "0" [] id = 1 -> "1" [] id = 2 -> "2" [] id = 3 -> "3"

\* parse_quest_from_json: one stage, one objective of required_count 1 per entry
ParseQuestFromJson(data) ==
    Quest(IdToString(data.id), data.title, {},
          << [i \in 1..Len(data.objectives) |->
                 QuestObjective(ObjectiveTypeOf(data.objectives[i].type),
                                IdToString(data.objectives[i].target_id), 1)] >>)

\* load_quests_from_game: the pool is filled from game.quests whenever it is empty
RECURSIVE InsertParsed(_, _)
InsertParsed(pool, list) ==
    IF list = <<>> THEN pool
    ELSE LET q == ParseQuestFromJson(list[1])
         IN  InsertParsed(MapInsert(pool, q.quest_id, q), Tail(list))

LoadQuestsFromGame(qs, game_quests) ==
    IF DOMAIN qs.available_quests # {} THEN qs
    ELSE [qs EXCEPT !.available_quests = InsertParsed(@, game_quests)]

AddAvailableQuest(qs, quest) ==
    [qs EXCEPT !.available_quests = MapInsert(@, quest.quest_id, quest)]

\* QuestSystem::accept_quest: [qs, ok, value]
AcceptQuest(qs, quest_id, t) ==
    IF quest_id \in DOMAIN qs.available_quests
    THEN LET quest == qs.available_quests[quest_id]
         IN  IF CanAccept(quest, qs.tracker.completed_quests)
             THEN LET r == TrackerAcceptQuest(qs.tracker, quest, t)
                  IN  IF r.ok
                      THEN [qs |-> [tracker |-> r.tracker,
                                    available_quests |-> MapRemove(qs.available_quests, quest_id)],
                            ok |-> TRUE, value |-> <<"Accepted quest: ", quest.title>>]
                      ELSE [qs |-> [qs EXCEPT !.tracker = r.tracker],
                            ok |-> FALSE, value |-> <<"Failed to accept quest">>]
             ELSE [qs |-> qs, ok |-> FALSE, value |-> <<"Prerequisites not met">>]
    ELSE [qs |-> qs, ok |-> FALSE, value |-> <<"Quest not found">>]

\* the orders in which a HashMap may yield the keys in ids
Orders(ids) ==
    {o \in UNION {[1..n -> ids] : n \in {Cardinality(ids)}} :
        \A i, j \in 1..Len(o) : i # j => o[i] # o[j]}

\* show_quests: the text, one entry per line group, for each iteration order
ShowQuests(qs) ==
    LET acceptable == {id \in DOMAIN qs.available_quests :
                          CanAccept(qs.available_quests[id], qs.tracker.completed_quests)}
    IN  { <<"Active Quests:">>
            \o [i \in 1..Len(oa) |-> <<"- ", qs.tracker.active_quests[oa[i]].title>>]
            \o <<"Available Quests:">>
            \o [i \in 1..Len(ov) |-> <<"- ", qs.available_quests[ov[i]].title>>]
          : oa \in Orders(DOMAIN qs.tracker.active_quests), ov \in Orders(acceptable) }

\* QuestSystem::on_command: the outcomes [qs, out], out the Option<String> returned
QuestOnCommand(qs0, command, args, game_quests, t) ==
    LET qs == LoadQuestsFromGame(qs0, game_quests)
    IN  CASE command = "quests" ->
                { [qs |-> qs, out |-> Some(text)] : text \in ShowQuests(qs) }
          [] command = "accept" ->
                IF args = <<>>
                THEN { [qs |-> qs, out |-> Some(<<"Usage: accept <quest_id>">>)] }
                ELSE LET r == AcceptQuest(qs, args[1], t)
                     IN  { [qs |-> r.qs,
                            out |-> Some(IF r.ok THEN r.value ELSE <<"Error: ">> \o r.value)] }
          [] command = "complete" ->
                IF args = <<>>
                THEN { [qs |-> qs, out |-> Some(<<"Usage: complete <quest_id>">>)] }
                ELSE LET r == TrackerCompleteQuest(qs.tracker, args[1], t)
                     IN  { [qs |-> [qs EXCEPT !.tracker = r.tracker],
                            out |-> Some(IF r.ok THEN <<"Completed quest: ", args[1]>>
                                         ELSE <<"Quest not found or not completable: ", args[1]>>)] }
          [] OTHER -> { [qs |-> qs, out |-> <<>>] }

(***************************************************************************)
(* The quest engine driven through its public calls                        *)
(***************************************************************************)
QuestIds == {"1", "2", "3"}

\* the "quests" array of the adventure file: one quest with an objective, one without
GameQuests ==
    << [id |-> 1, title |-> "Rat hunt",
        objectives |-> << [type |-> "kill_monster", target_id |-> 1] >>],
       [id |-> 2, title |-> "Welcome", objectives |-> <<>>] >>

\* the quests callers build: the file's quests, and one that needs quest 1 completed
\* and whose only objective is optional
QuestCatalog ==
    { ParseQuestFromJson(GameQuests[1]), ParseQuestFromJson(GameQuests[2]),
      Quest("3", "Reward", {"1"},
            << << [QuestObjective("Talk", "1", 1) EXCEPT !.is_optional = TRUE] >> >>) }

Ret(op, quest_id, ok, value) ==
    [op |-> op, quest_id |-> quest_id, ok |-> ok, value |-> value]

HistoryFull == Len(quest_system.tracker.quest_history) >= MaxQuestHistory

DoAddAvailableQuest(quest) ==
    /\ quest_system' = AddAvailableQuest(quest_system, quest)
    /\ ret' = Ret("add_available_quest", quest.quest_id, TRUE, <<>>)
    /\ UNCHANGED now

DoLoadQuestsFromGame ==
    /\ quest_system' = LoadQuestsFromGame(quest_system, GameQuests)
    /\ ret' = Ret("load_quests_from_game", None, TRUE, <<>>)
    /\ UNCHANGED now

DoAcceptQuest(quest_id) ==
    LET r == AcceptQuest(quest_system, quest_id, now)
    IN  /\ quest_system' = r.qs
        /\ ret' = Ret("accept_quest", quest_id, r.ok, r.value)
        /\ UNCHANGED now

DoTrackerAcceptQuest(quest) ==
    LET r == TrackerAcceptQuest(quest_system.tracker, quest, now)
    IN  /\ quest_system' = [quest_system EXCEPT !.tracker = r.tracker]
        /\ ret' = Ret("tracker.accept_quest", quest.quest_id, r.ok, <<>>)
        /\ UNCHANGED now

DoCompleteQuest(quest_id) ==
    LET r == TrackerCompleteQuest(quest_system.tracker, quest_id, now)
    IN  /\ quest_system' = [quest_system EXCEPT !.tracker = r.tracker]
        /\ ret' = Ret("tracker.complete_quest", quest_id, r.ok, <<>>)
        /\ UNCHANGED now

DoFailQuest(quest_id) ==
    LET r == TrackerFailQuest(quest_system.tracker, quest_id, now)
    IN  /\ quest_system' = [quest_system EXCEPT !.tracker = r.tracker]
        /\ ret' = Ret("tracker.fail_quest", quest_id, r.ok, <<>>)
        /\ UNCHANGED now

DoQuestCommand(command, args) ==
    \E o \in QuestOnCommand(quest_system, command, args, GameQuests, now) :
        /\ quest_system' = o.qs
        /\ ret' = Ret(command, IF args = <<>> THEN None ELSE args[1], o.out # <<>>,
                      IF o.out = <<>> THEN <<>> ELSE o.out[1])
        /\ UNCHANGED now

\* time passes between two calls
Tick ==
    /\ now < MaxClock
    /\ now' = now + 1
    /\ UNCHANGED <<quest_system, ret>>

QuestInit ==
    /\ quest_system = NewQuestSystem
    /\ staged_quest = Quest("0", "", {}, <<>>)
    /\ now = 0
    /\ ret = Ret(None, None, FALSE, <<>>)

(***************************************************************************)
(* AdventureGame (game_state.rs) and the player's systems.  A command text *)
(* is a sequence of words and whitespace runs (" "); the names that are    *)
(* matched by substring are spelled out letter by letter.                  *)
(***************************************************************************)
\* str::to_lowercase, for the strings of the model that have upper-case letters
ToLowercase(s) ==
    CASE s = "Key" -> "key" [] s = "Keyring" -> "keyring" [] s = "Rat" -> "rat"
      [] s = "KEY" -> "key" [] s \in {"NORTH", "North"} -> "north"
      [] s = "TAKE" -> "take" [] s = "GO" -> "go" [] s = "QUIT" -> "quit" [] s = "Q" -> "q"
      [] s = "Ancient" -> "ancient" [] s = "Hello" -> "hello" [] s = "There" -> "there"
      [] s = "Open" -> "open" [] s = "Door" -> "door" [] s = "ANCIENT" -> "ancient"
      [] s \in {"Ancient Key", "ANCIENT KEY"} -> "ancient key" [] OTHER -> s

\* str::contains on the letters of the two strings
Contains(hay, needle) ==
    LET Spell(w) == CASE w = "key" -> <<"k", "e", "y">>
                      [] w = "keyring" -> <<"k", "e", "y", "r", "i", "n", "g">>
                      [] w = "ring" -> <<"r", "i", "n", "g">>
                      [] w = "rat" -> <<"r", "a", "t">>
                      [] OTHER -> <<w>>
        h == Spell(hay)
        n == Spell(needle)
    IN  \E i \in 0..(Len(h) - Len(n)) : SubSeq(h, i + 1, i + Len(n)) = n

\* str::split_whitespace
SplitWhitespace(text) == SelectSeq(text, LAMBDA w : w # " ")

\* the adventure file the game is loaded from
AdventureFile ==
    [start_room |-> 1,
     rooms |-> << [id |-> 1, name |-> "Village", exits |-> [north |-> 2]],
                  [id |-> 2, name |-> "Forest", exits |-> [south |-> 1]] >>,
     items |-> << [id |-> 1, name |-> "Key", is_takeable |-> TRUE, location |-> 1],
                  [id |-> 2, name |-> "Keyring", is_takeable |-> TRUE, location |-> 2] >>,
     monsters |-> << [id |-> 1, name |-> "Rat", room_id |-> 2, hardiness |-> 4] >>,
     quests |-> << GameQuests[1] >>]

\* AdventureGame::new, then load_adventure: the maps are keyed by the entries' ids
LoadAdventure(file) ==
    LET ById(list) == [id \in {list[i].id : i \in 1..Len(list)} |->
                          LET i == CHOOSE j \in 1..Len(list) :
                                       list[j].id = id /\ \A k \in (j + 1)..Len(list) : list[k].id # id
                          IN  list[i]]
        monsters == ById(file.monsters)
    IN  [rooms |-> ById(file.rooms),
         items |-> ById(file.items),
         monsters |-> [id \in DOMAIN monsters |->
                          [id |-> id, name |-> monsters[id].name, room_id |-> monsters[id].room_id,
                           hardiness |-> monsters[id].hardiness, is_dead |-> FALSE,
                           current_health |-> Some(monsters[id].hardiness)]],
         player |-> [name |-> "Adventurer", hardiness |-> 12, gold |-> 200,
                     weapon_ability |-> [w \in 1..5 |-> 5], current_room |-> file.start_room,
                     current_health |-> Some(12), inventory |-> <<>>],
         turn_count |-> 0, game_over |-> FALSE, systems |-> <<>>, quests |-> file.quests]

GetItemsInRoom(g, room_id) == {id \in DOMAIN g.items : g.items[id].location = room_id}

\* get_monsters_in_room without the test of is_dead
GetMonstersInRoomWithDead(g, room_id) ==
    {id \in DOMAIN g.monsters : g.monsters[id].room_id = room_id}

GetMonstersInRoom(g, room_id) ==
    {id \in DOMAIN g.monsters : g.monsters[id].room_id = room_id /\ ~g.monsters[id].is_dead}

\* Room::get_exit
GetExit(room, direction) ==
    IF ToLowercase(direction) \in DOMAIN room.exits
    THEN Some(room.exits[ToLowercase(direction)]) ELSE <<>>

\* AdventureGame::move_player: [game, ok]
MovePlayer(g, direction) ==
    LET exit == IF g.player.current_room \in DOMAIN g.rooms
                THEN GetExit(g.rooms[g.player.current_room], direction) ELSE <<>>
    IN  IF exit # <<>> /\ exit[1] \in DOMAIN g.rooms
        THEN [game |-> [g EXCEPT !.player.current_room = exit[1], !.turn_count = @ + 1],
              ok |-> TRUE]
        ELSE [game |-> g, ok |-> FALSE]

\* AdventureGame::take_item: the outcomes [game, ok]; the first match in the map's
\* iteration order is taken, and that order is any order
TakeItem(g, item_name) ==
    LET matches == {id \in GetItemsInRoom(g, g.player.current_room) :
                        /\ Contains(ToLowercase(g.items[id].name), ToLowercase(item_name))
                        /\ g.items[id].is_takeable}
    IN  IF matches = {} THEN {[game |-> g, ok |-> FALSE]}
        ELSE {[game |-> [g EXCEPT !.player.inventory = Append(@, id),
                                  !.items[id].location = 0],
               ok |-> TRUE] : id \in matches}

\* AdventureGame::drop_item: [game, ok]; the inventory is searched in its order
DropItem(g, item_name) ==
    LET inv == g.player.inventory
        hit == {i \in 1..Len(inv) :
                   /\ inv[i] \in DOMAIN g.items
                   /\ Contains(ToLowercase(g.items[inv[i]].name), ToLowercase(item_name))}
    IN  IF hit = {} THEN [game |-> g, ok |-> FALSE]
        ELSE LET item_id == inv[CHOOSE i \in hit : \A j \in hit : i <= j]
             IN  [game |-> [g EXCEPT !.player.inventory = SelectSeq(@, LAMBDA id : id # item_id),
                                     !.items[item_id].location = g.player.current_room],
                  ok |-> TRUE]

\* BasicWorldSystem::on_command: [game, out]; look prints the room and returns None
BasicWorldOnCommand(g, command, args) ==
    CASE command \in {"look", "l"} -> [game |-> g, out |-> <<>>]
      [] command \in {"go", "move"} ->
            IF args = <<>> THEN [game |-> g, out |-> Some(<<"Go where?">>)]
            ELSE LET r == MovePlayer(g, args[1])
                 IN  [game |-> r.game,
                      out |-> Some(IF r.ok THEN <<"You move ", args[1], ".">>
                                   ELSE <<"You can't go ", args[1], ".">>)]
      [] command \in {"north", "south", "east", "west", "up", "down",
                      "n", "s", "e", "w", "u", "d"} ->
            LET r == MovePlayer(g, command)
            IN  [game |-> r.game,
                 out |-> Some(IF r.ok THEN <<"You move ", command, ".">>
                              ELSE <<"You can't go that way.">>)]
      [] OTHER -> [game |-> g, out |-> <<>>]

\* InventorySystem::on_command: the outcomes [game, out]
InventoryOnCommand(g, command, args) ==
    CASE command \in {"inventory", "inv", "i"} ->
            LET held == SelectSeq(g.player.inventory, LAMBDA id : id \in DOMAIN g.items)
            IN  { [game |-> g,
                   out |-> Some(IF g.player.inventory = <<>> THEN <<"Your inventory is empty.">>
                                ELSE <<"Inventory:">>
                                       \o [i \in 1..Len(held) |-> g.items[held[i]].name])] }
      [] command \in {"take", "get"} ->
            IF args = <<>> THEN { [game |-> g, out |-> Some(<<"Take what?">>)] }
            ELSE { [game |-> r.game,
                    out |-> Some(IF r.ok THEN <<"Taken.">> ELSE <<"You can't take that.">>)]
                   : r \in TakeItem(g, args[1]) }
      [] command = "drop" ->
            IF args = <<>> THEN { [game |-> g, out |-> Some(<<"Drop what?">>)] }
            ELSE LET r == DropItem(g, args[1])
                 IN  { [game |-> r.game,
                        out |-> Some(IF r.ok THEN <<"Dropped.">> ELSE <<"You don't have that.">>)] }
      [] OTHER -> { [game |-> g, out |-> <<>>] }

\* CombatSystem::attack_monster: the outcomes [game, out]; the first monster of the
\* room, in the map's iteration order, that matches and has a health value is hit
AttackMonster(g, target_name) ==
    LET hit == {id \in GetMonstersInRoom(g, g.player.current_room) :
                   /\ Contains(ToLowercase(g.monsters[id].name), ToLowercase(target_name))
                   /\ g.monsters[id].current_health # <<>>}
        damage == g.player.weapon_ability[1]
    IN  IF hit = {}
        THEN { [game |-> g, out |-> Some(<<"There's no ", target_name, " here to attack.">>)] }
        ELSE { LET health == g.monsters[id].current_health[1] - damage
               IN  IF health <= 0
                   THEN [game |-> [g EXCEPT !.monsters[id].is_dead = TRUE],
                         out |-> Some(<<"You defeat the ", g.monsters[id].name, "!">>)]
                   ELSE [game |-> g,
                         out |-> Some(<<"You attack the ", g.monsters[id].name, " for ", damage,
                                        " damage. It has ", health, " health left.">>)]
               : id \in hit }

\* CombatSystem::on_command: the outcomes [game, out]
CombatOnCommand(g, command, args) ==
    CASE command \in {"attack", "fight"} ->
            IF args = <<>> THEN { [game |-> g, out |-> Some(<<"Attack what?">>)] }
            ELSE AttackMonster(g, args[1])
      [] command \in {"status", "stats"} ->
            { [game |-> g,
               out |-> Some(<<"Player: ", g.player.name,
                              "Health: ", IF g.player.current_health = <<>> THEN 0
                                          ELSE g.player.current_health[1],
                              "/", g.player.hardiness, "Gold: ", g.player.gold,
                              "Location: Room ", g.player.current_room>>)] }
      [] OTHER -> { [game |-> g, out |-> <<>>] }

\* the systems a game registers
SystemKinds == {"BasicWorld", "Inventory", "Combat", "Quest"}

\* System::on_command of a registered system: the outcomes [game, qs, out]; the quest
\* system is the one system with a state of its own, qs
OnCommand(system, g, qs, command, args, t) ==
    CASE system = "BasicWorld" ->
            LET r == BasicWorldOnCommand(g, command, args)
            IN  { [game |-> r.game, qs |-> qs, out |-> r.out] }
      [] system = "Inventory" ->
            { [game |-> r.game, qs |-> qs, out |-> r.out] : r \in InventoryOnCommand(g, command, args) }
      [] system = "Combat" ->
            { [game |-> r.game, qs |-> qs, out |-> r.out] : r \in CombatOnCommand(g, command, args) }
      [] system = "Quest" ->
            { [game |-> g, qs |-> r.qs, out |-> r.out]
              : r \in QuestOnCommand(qs, command, args, g.quests, t) }

\* a dispatch loop that offers the command to every system and keeps the last answer
RECURSIVE OfferToAll(_, _, _, _, _, _, _, _)
OfferToAll(systems, g, qs, cmd, args, t, result, seen) ==
    IF systems = <<>>
    THEN { [game |-> g, qs |-> qs, result |-> result, invoked |-> seen] }
    ELSE UNION { OfferToAll(Tail(systems), o.game, o.qs, cmd, args, t,
                            IF o.out # <<>> THEN Some(<<o.out[1]>>) ELSE result,
                            Append(seen, Head(systems)))
                 : o \in OnCommand(Head(systems), g, qs, cmd, args, t) }

\* the loop of process_command over the systems taken out of the game: the outcomes
\* [game, qs, result, invoked], result the Option<Vec<String>> the loop leaves
RECURSIVE OfferToSystems(_, _, _, _, _, _, _, _)
OfferToSystems(systems, g, qs, cmd, args, t, result, seen) ==
    IF systems = <<>>
    THEN { [game |-> g, qs |-> qs, result |-> result, invoked |-> seen] }
    ELSE UNION { IF o.out # <<>>
                 THEN { [game |-> o.game, qs |-> o.qs, result |-> Some(<<o.out[1]>>),
                         invoked |-> Append(seen, Head(systems))] }
                 ELSE OfferToSystems(Tail(systems), o.game, o.qs, cmd, args, t, result,
                                     Append(seen, Head(systems)))
                 : o \in OnCommand(Head(systems), g, qs, cmd, args, t) }

\* a process_command that leaves the list it took out of the game detached
ProcessCommandDetached(g, qs, text, t) ==
    LET parts == SplitWhitespace(text)
        cmd == IF parts = <<>> THEN "" ELSE parts[1]
        args == IF parts = <<>> THEN <<>> ELSE Tail(parts)
    IN  { [game |-> r.game, qs |-> r.qs,
           output |-> IF r.result # <<>> THEN r.result[1]
                      ELSE << <<"Unknown command: ", text>> >>,
           invoked |-> r.invoked]
          : r \in OfferToSystems(g.systems, [g EXCEPT !.systems = <<>>], qs, cmd, args, t,
                                 <<>>, <<>>) }

\* AdventureGame::process_command: the outcomes [game, qs, output, invoked]
ProcessCommand(g, qs, text, t) ==
    LET parts == SplitWhitespace(text)
        cmd == IF parts = <<>> THEN "" ELSE parts[1]
        args == IF parts = <<>> THEN <<>> ELSE Tail(parts)
    IN  { [game |-> [r.game EXCEPT !.systems = g.systems], qs |-> r.qs,
           output |-> IF r.result # <<>> THEN r.result[1]
                      ELSE << <<"Unknown command: ", text>> >>,
           invoked |-> r.invoked]
          : r \in OfferToSystems(g.systems, [g EXCEPT !.systems = <<>>], qs, cmd, args, t,
                                 <<>>, <<>>) }

\* the command texts typed at the game
CommandTexts ==
    { <<"look">>, <<"north">>, <<"go", " ", "south">>, <<"go">>, <<"take", " ", "key">>,
      <<"drop", " ", "KEY">>, <<"inventory">>, <<"attack", " ", "rat">>, <<"status">>,
      <<"quests">>, <<"accept", " ", "1">>, <<"complete", " ", "1">>, <<"xyzzy">>,
      <<>>, <<" ", "take", " ">> }

\* AdventureGame::add_system
DoAddSystem(system) ==
    /\ game' = [game EXCEPT !.systems = Append(@, system)]
    /\ command_text' = <<>>
    /\ output' = <<>>
    /\ invoked' = <<>>
    /\ UNCHANGED questVars

\* AdventureGame::process_command
DoProcessCommand(text) ==
    \E r \in ProcessCommand(game, quest_system, text, now) :
        /\ game' = r.game
        /\ quest_system' = r.qs
        /\ command_text' = text
        /\ output' = r.output
        /\ invoked' = r.invoked
        /\ UNCHANGED <<now, ret>>

\* the game after AdventureGame::new and load_adventure
GameInit ==
    /\ game = LoadAdventure(AdventureFile)
    /\ command_text = <<>>
    /\ output = <<>>
    /\ invoked = <<>>

(***************************************************************************)
(* A Quest that a caller builds and advances                               *)
(***************************************************************************)
\* the objective lists of a stage: up to two objectives that need one kill each,
\* done or not, optional or not
StageObjectives ==
    LET Objectives == { [QuestObjective("Kill", "1", 1)
                            EXCEPT !.current_count = c, !.is_optional = o]
                        : c \in 0..1, o \in BOOLEAN }
    IN  {<<>>} \cup {<<a>> : a \in Objectives} \cup {<<a, b>> : a \in Objectives, b \in Objectives}

\* Quest::new followed by pushes onto quest.stages
StagedQuests ==
    { Quest("1", "Staged", {}, stages)
      : stages \in UNION { [1..n -> StageObjectives] : n \in 0..MaxStages } }

\* what a call that panicked leaves as its value
Panic == <<"panic">>

\* quest.advance_stage()
DoAdvanceStage ==
    \E r \in AdvanceStage(staged_quest) :
        /\ staged_quest' = r.quest
        /\ ret' = Ret("advance_stage", staged_quest.quest_id, r.ok, IF r.panic THEN Panic ELSE <<>>)
        /\ UNCHANGED <<quest_system, now>>

\* quest.is_complete()
DoIsComplete ==
    \E r \in IsComplete(staged_quest) :
        /\ ret' = Ret("is_complete", staged_quest.quest_id, r.ok, IF r.panic THEN Panic ELSE <<>>)
        /\ UNCHANGED <<staged_quest, quest_system, now>>

\* the f32 nearest to n * 2^-e (n >= 0), ties to the even significand, as the
\* pair [m, e] of a significand below 2^24 and the exponent of its unit
F32(n, e) ==
    LET RECURSIVE BitLen(_)
        BitLen(x) == IF x = 0 THEN 0 ELSE 1 + BitLen(x \div 2)
        k == IF BitLen(n) > 24 THEN BitLen(n) - 24 ELSE 0
        down == n \div (2 ^ k)
        rest == 2 * (n % (2 ^ k))
        up == rest > 2 ^ k \/ (rest = 2 ^ k /\ down % 2 = 1)
    IN  [m |-> IF up THEN down + 1 ELSE down, e |-> e - k]

\* quest.get_level_adjusted_rewards(player_level) with level_diff >= 5 halving
GetLevelAdjustedRewardsHalvedFromFive(q, player_level) ==
    LET level_diff == player_level - q.quest_giver_level
        abs == IF level_diff < 0 THEN -level_diff ELSE level_diff
        tenth == F32(abs * 13421773, 27)
        xp_multiplier == IF level_diff < 0 THEN F32(2 ^ tenth.e + tenth.m, tenth.e)
                         ELSE IF level_diff >= 5 THEN [m |-> 1, e |-> 1]
                         ELSE [m |-> 1, e |-> 0]
        product == F32(q.rewards.experience_points * xp_multiplier.m, xp_multiplier.e)
    IN  [q.rewards EXCEPT !.experience_points =
            IF product.e >= 0 THEN product.m \div (2 ^ product.e)
            ELSE product.m * 2 ^ (-product.e)]

\* quest.get_level_adjusted_rewards(player_level): 0.1f32 is 13421773 * 2^-27; the
\* multiplier is an f32, the product of the experience with it is rounded to an
\* f32 and cut to its integer part by "as i32"
GetLevelAdjustedRewards(q, player_level) ==
    LET level_diff == player_level - q.quest_giver_level
        abs == IF level_diff < 0 THEN -level_diff ELSE level_diff
        tenth == F32(abs * 13421773, 27)
        xp_multiplier == IF level_diff < 0 THEN F32(2 ^ tenth.e + tenth.m, tenth.e)
                         ELSE IF level_diff > 5 THEN [m |-> 1, e |-> 1]
                         ELSE [m |-> 1, e |-> 0]
        product == F32(q.rewards.experience_points * xp_multiplier.m, xp_multiplier.e)
    IN  [q.rewards EXCEPT !.experience_points =
            IF product.e >= 0 THEN product.m \div (2 ^ product.e)
            ELSE product.m * 2 ^ (-product.e)]

\* quest.get_level_adjusted_rewards(player_level); the value returned is kept
\* beside the level it was asked for
DoGetLevelAdjustedRewards(player_level) ==
    /\ ret' = Ret("get_level_adjusted_rewards", staged_quest.quest_id, TRUE,
                  <<player_level, GetLevelAdjustedRewards(staged_quest, player_level)>>)
    /\ UNCHANGED <<staged_quest, quest_system, now>>

\* objective.progress(amount): [objective, value]; the amount is not read
Progress(o, amount) ==
    LET count == IF o.current_count < o.required_count THEN o.current_count
                 ELSE o.required_count
    IN  [objective |-> [o EXCEPT !.current_count = count], value |-> count - o.current_count]

\* objective.get_progress_percentage(): the quotient of the two counts as f32 (26
\* bits of the long division and a sticky bit, then rounded), times 100.0 as f32,
\* cut to its integer part by "as i32"; the counts are not negative
ObjectiveProgressPercentage(o) ==
    LET RECURSIVE Norm(_, _, _)
        \* n / d * 2^-e with d <= n < 2 * d
        Norm(n, d, e) == IF n < d THEN Norm(2 * n, d, e + 1)
                         ELSE IF n >= 2 * d THEN Norm(n, 2 * d, e - 1)
                         ELSE [n |-> n, d |-> d, e |-> e]
        RECURSIVE Bits(_, _, _, _)
        \* k more bits of the quotient q, r the remainder; a sticky bit at the end
        Bits(q, r, d, k) ==
            IF k = 0 THEN 2 * q + (IF r = 0 THEN 0 ELSE 1)
            ELSE IF r >= d THEN Bits(2 * q + 1, 2 * (r - d), d, k - 1)
                 ELSE Bits(2 * q, 2 * r, d, k - 1)
        from == Norm(o.current_count, o.required_count, 0)
        ratio == IF o.current_count = 0 THEN [m |-> 0, e |-> 0]
                 ELSE F32(Bits(0, from.n, from.d, 26), from.e + 26)
        product == F32(ratio.m * 100, ratio.e)
    IN  IF o.required_count = 0 THEN 100
        ELSE IF product.e >= 0 THEN product.m \div (2 ^ product.e)
        ELSE product.m * 2 ^ (-product.e)

\* stage.get_progress_percentage(): the sum of the objectives' percentages divided
\* by their number, on i32
StageProgressPercentage(objectives) ==
    LET RECURSIVE Sum(_)
        Sum(i) == IF i = 0 THEN 0
                  ELSE Sum(i - 1) + ObjectiveProgressPercentage(objectives[i])
    IN  IF objectives = <<>> THEN 100 ELSE Sum(Len(objectives)) \div Len(objectives)

\* get_progress_percentage() called on the first stage (i = 0) or on its objective i
DoGetProgressPercentage(i) ==
    /\ staged_quest.stages # <<>>
    /\ i <= Len(staged_quest.stages[1])
    /\ ret' = Ret("get_progress_percentage", staged_quest.quest_id, TRUE,
                  <<i, IF i = 0 THEN StageProgressPercentage(staged_quest.stages[1])
                       ELSE ObjectiveProgressPercentage(staged_quest.stages[1][i])>>)
    /\ UNCHANGED <<staged_quest, quest_system, now>>

(***************************************************************************)
(* Engine (engine.rs), its GameState (game_state.rs) and its two systems   *)
(* (systems.rs).  A Command is [kind, arg]; an on_event outcome is         *)
(* [state, lines, panic], panic when current_room found no room.           *)
(***************************************************************************)
\* GameState::new: the village with the Ancient Key, and the forest north of it
NewGameState ==
    [world |-> [village |-> [title |-> "Quiet Village", description |-> "A small village",
                             exits |-> [north |-> "forest"],
                             items |-> << [id |-> "key", name |-> "Ancient Key"] >>],
                forest |-> [title |-> "Whispering Forest", description |-> "Tall pines",
                            exits |-> [south |-> "village"], items |-> <<>>]],
     player |-> [location |-> "village", inventory |-> <<>>],
     is_over |-> FALSE]

\* iter().position(|i| i.name.eq_ignore_ascii_case(name)): Some(index from 1) or None
PositionNamed(list, name) ==
    LET hit == {i \in 1..Len(list) : ToLowercase(list[i].name) = ToLowercase(name)}
    IN  IF hit = {} THEN <<>> ELSE Some(CHOOSE i \in hit : \A j \in hit : i <= j)

\* a Vec::remove(idx) that leaves the element in the list
RemoveAtKeeping(list, idx) == list

\* Vec::remove(idx), idx from 1
RemoveAt(list, idx) == SubSeq(list, 1, idx - 1) \o SubSeq(list, idx + 1, Len(list))

\* a Room::add_item that puts the item into the village wherever the player is
RoomAddItemInVillage(st, room_id, item) == [st EXCEPT !.world["village"].items = Append(@, item)]

\* Room::add_item on the room room_id of the world
RoomAddItem(st, room_id, item) == [st EXCEPT !.world[room_id].items = Append(@, item)]

\* <InventorySystem as System>::on_event
InventoryOnEvent(st, cmd) ==
    LET here == st.player.location
        Out(st2, lines) == [state |-> st2, lines |-> lines, panic |-> FALSE]
    IN  CASE cmd.kind = "Inventory" ->
                IF st.player.inventory = <<>> THEN Out(st, << <<"Your inventory is empty.">> >>)
                ELSE Out(st, << <<"You are carrying:">> >>
                             \o [i \in 1..Len(st.player.inventory) |->
                                    <<"- ", st.player.inventory[i].name>>])
          [] cmd.kind = "Take" ->
                IF here \notin DOMAIN st.world
                THEN [state |-> st, lines |-> <<>>, panic |-> TRUE]
                ELSE LET idx == PositionNamed(st.world[here].items, cmd.arg)
                     IN  IF idx = <<>> THEN Out(st, << <<"You don't see that here.">> >>)
                         ELSE LET i == st.world[here].items[idx[1]]
                              IN  Out([st EXCEPT !.world[here].items = RemoveAt(@, idx[1]),
                                                 !.player.inventory = Append(@, i)],
                                      << <<"You take the ", i.name, ".">> >>)
          [] cmd.kind = "Drop" ->
                LET idx == PositionNamed(st.player.inventory, cmd.arg)
                IN  IF idx = <<>> THEN Out(st, << <<"You aren't carrying that.">> >>)
                    ELSE LET item == st.player.inventory[idx[1]]
                             st2 == [st EXCEPT !.player.inventory = RemoveAt(@, idx[1])]
                         IN  IF here \notin DOMAIN st.world
                             THEN [state |-> st2, lines |-> <<>>, panic |-> TRUE]
                             ELSE Out(RoomAddItem(st2, here, item),
                                      << <<"You drop the ", item.name, ".">> >>)
          [] OTHER -> Out(st, <<>>)

\* <BasicWorldSystem as System>::on_event; the sorted exits are written as their set
BasicWorldOnEvent(st, cmd) ==
    LET here == st.player.location
        Out(st2, lines) == [state |-> st2, lines |-> lines, panic |-> FALSE]
        NoRoom == [state |-> st, lines |-> <<>>, panic |-> TRUE]
    IN  CASE cmd.kind = "Help" ->
                Out(st, << <<"Commands:">>, <<"  look | l">>,
                           <<"  north/south/east/west (or n/s/e/w)">>, <<"  go <direction>">>,
                           <<"  take <item>">>, <<"  drop <item>">>, <<"  inv | i">>,
                           <<"  quit">> >>)
          [] cmd.kind = "Look" ->
                IF here \notin DOMAIN st.world THEN NoRoom
                ELSE LET room == st.world[here]
                     IN  Out(st, << <<room.title>>, <<room.description>> >>
                                 \o (IF room.items = <<>> THEN <<>>
                                     ELSE << <<"You see:">> >>
                                          \o [i \in 1..Len(room.items) |->
                                                 <<"- ", room.items[i].name>>])
                                 \o (IF DOMAIN room.exits = {} THEN <<>>
                                     ELSE << <<"Exits: ", DOMAIN room.exits>> >>))
          [] cmd.kind = "Move" ->
                IF here \notin DOMAIN st.world THEN NoRoom
                ELSE IF cmd.arg \in DOMAIN st.world[here].exits
                     THEN Out([st EXCEPT !.player.location = st.world[here].exits[cmd.arg]],
                              << <<"You travel ", cmd.arg, ".">> >>)
                     ELSE Out(st, << <<"You can't go that way.">> >>)
          [] cmd.kind = "Quit" -> Out([st EXCEPT !.is_over = TRUE], << <<"Goodbye.">> >>)
          [] cmd.kind = "Unknown" -> Out(st, << <<"I don't understand: ", cmd.arg>> >>)
          [] OTHER -> Out(st, <<>>)

\* a step that stops at the first system that produced output
RECURSIVE EngineStepFirstAnswer(_, _, _, _)
EngineStepFirstAnswer(systems, st, cmd, lines) ==
    IF systems = <<>> THEN [state |-> st, lines |-> lines, panic |-> FALSE, invoked |-> <<>>]
    ELSE LET part == IF Head(systems) = "inventory" THEN InventoryOnEvent(st, cmd)
                     ELSE BasicWorldOnEvent(st, cmd)
         IN  IF part.panic \/ part.lines # <<>>
             THEN [state |-> part.state, lines |-> lines \o part.lines, panic |-> part.panic,
                   invoked |-> <<Head(systems)>>]
             ELSE [EngineStepFirstAnswer(Tail(systems), part.state, cmd, lines)
                      EXCEPT !.invoked = <<Head(systems)>> \o @]

\* Engine::step: every system of the list gets the event, in list order, and the
\* lines are concatenated; a panic ends the call; invoked lists the on_event calls
RECURSIVE EngineStep(_, _, _, _)
EngineStep(systems, st, cmd, lines) ==
    IF systems = <<>> THEN [state |-> st, lines |-> lines, panic |-> FALSE, invoked |-> <<>>]
    ELSE LET part == IF Head(systems) = "inventory" THEN InventoryOnEvent(st, cmd)
                     ELSE BasicWorldOnEvent(st, cmd)
         IN  IF part.panic
             THEN [state |-> part.state, lines |-> lines, panic |-> TRUE,
                   invoked |-> <<Head(systems)>>]
             ELSE [EngineStep(Tail(systems), part.state, cmd, lines \o part.lines)
                      EXCEPT !.invoked = <<Head(systems)>> \o @]

\* the Commands handed to Engine::step
EngineCommands ==
    { [kind |-> k, arg |-> ""] : k \in {"Help", "Look", "Inventory", "Quit"} }
    \cup { [kind |-> "Move", arg |-> d] : d \in {"north", "south", "east"} }
    \cup { [kind |-> k, arg |-> n] : k \in {"Take", "Drop", "Use"}, n \in {"ANCIENT KEY", "Key"} }
    \cup { [kind |-> "Unknown", arg |-> "xyzzy"] }

NoCommand == [kind |-> None, arg |-> ""]

\* the lexemes of a text: its words and, as " ", each white-space character
\* between and around them; a text that is not listed is one word
Lexemes(str) ==
    CASE str = "" -> <<>>
      [] str = "  " -> <<" ", " ">>
      [] str = " look " -> <<" ", "look", " ">>
      [] str = "go north" -> <<"go", " ", "north">>
      [] str = "GO North" -> <<"GO", " ", "North">>
      [] str = "go north please" -> <<"go", " ", "north", " ", "please">>
      [] str = "move s" -> <<"move", " ", "s">>
      [] str = "go up" -> <<"go", " ", "up">>
      [] str = "take Ancient Key" -> <<"take", " ", "Ancient", " ", "Key">>
      [] str = "TAKE Ancient Key" -> <<"TAKE", " ", "Ancient", " ", "Key">>
      [] str = "take  Key" -> <<"take", " ", " ", "Key">>
      [] str = "take " -> <<"take", " ">>
      [] str = "get Key" -> <<"get", " ", "Key">>
      [] str = "drop ANCIENT KEY" -> <<"drop", " ", "ANCIENT", " ", "KEY">>
      [] str = "use Key" -> <<"use", " ", "Key">>
      [] str = "say Hello There" -> <<"say", " ", "Hello", " ", "There">>
      [] str = "Open Door" -> <<"Open", " ", "Door">>
      [] str = " Open Door" -> <<" ", "Open", " ", "Door">>
      [] str = "ancient key" -> <<"ancient", " ", "key">>
      [] str = "hello there" -> <<"hello", " ", "there">>
      [] str = "quit now" -> <<"quit", " ", "now">>
      [] str = "Ancient Key" -> <<"Ancient", " ", "Key">>
      [] str = "ANCIENT KEY" -> <<"ANCIENT", " ", "KEY">>
      [] str = "Hello There" -> <<"Hello", " ", "There">>
      [] OTHER -> <<str>>

\* str::trim on lexemes
Strip(text) ==
    LET from == {i \in 1..Len(text) : text[i] # " "}
    IN  IF from = {} THEN <<>>
        ELSE SubSeq(text, CHOOSE i \in from : \A j \in from : i <= j,
                          CHOOSE i \in from : \A j \in from : i >= j)

\* the match of Command::parse on the verb: parts are the lower-cased tokens,
\* rest_original and trimmed the lexemes of the two strings
MatchVerb(parts, rest_original, trimmed) ==
    LET \* the String of a run of lexemes
        Join(text) == IF text = <<>> THEN ""
                      ELSE IF Len(text) = 1 THEN text[1]
                      ELSE CHOOSE str \in {"Ancient Key", "ANCIENT KEY", "ancient key",
                                           "Hello There", "hello there", "go up", "go north",
                                           "Open Door", "take  Key", "take Ancient Key",
                                           "quit now"} : Lexemes(str) = text
        verb == IF parts = <<>> THEN "" ELSE parts[1]
        Cmd(kind, arg) == [kind |-> kind, arg |-> arg]
        Unknown == Cmd("Unknown", Join(trimmed))
        WithArgument(kind) == IF rest_original = <<>> THEN Unknown
                              ELSE Cmd(kind, Join(rest_original))
    IN  CASE verb \in {"help", "?"} -> Cmd("Help", "")
          [] verb \in {"look", "l"} -> Cmd("Look", "")
          [] verb \in {"inv", "inventory", "i"} -> Cmd("Inventory", "")
          [] verb \in {"quit", "exit"} -> Cmd("Quit", "")
          [] verb \in {"n", "north"} -> Cmd("Move", "north")
          [] verb \in {"s", "south"} -> Cmd("Move", "south")
          [] verb \in {"e", "east"} -> Cmd("Move", "east")
          [] verb \in {"w", "west"} -> Cmd("Move", "west")
          [] verb \in {"go", "move"} ->
                IF Len(parts) < 2 THEN Unknown
                ELSE CASE parts[2] \in {"n", "north"} -> Cmd("Move", "north")
                       [] parts[2] \in {"s", "south"} -> Cmd("Move", "south")
                       [] parts[2] \in {"e", "east"} -> Cmd("Move", "east")
                       [] parts[2] \in {"w", "west"} -> Cmd("Move", "west")
                       [] OTHER -> Unknown
          [] verb \in {"take", "get"} -> WithArgument("Take")
          [] verb = "drop" -> WithArgument("Drop")
          [] verb = "use" -> WithArgument("Use")
          [] verb = "say" -> WithArgument("Say")
          [] OTHER -> Unknown

\* a parse that does not trim the input first
ParseUntrimmed(input) ==
    LET words == SplitWhitespace(input)
        gaps == {i \in 1..Len(input) : input[i] = " "}
    IN  IF input = <<>> THEN [ok |-> FALSE, err |-> "Empty", cmd |-> [kind |-> None, arg |-> ""]]
        ELSE [ok |-> TRUE, err |-> None,
              cmd |-> MatchVerb([i \in 1..Len(words) |-> ToLowercase(words[i])],
                                IF gaps = {} THEN <<>>
                                ELSE Strip(SubSeq(input, 1 + (CHOOSE i \in gaps : \A j \in gaps : i <= j),
                                                  Len(input))),
                                IF words = <<>> THEN <<>> ELSE input)]

\* a parse that reads the argument from the lower-cased line
ParseLowercasedArgument(input) ==
    LET trimmed == Strip(input)
        lower == [i \in 1..Len(trimmed) |-> ToLowercase(trimmed[i])]
        words == SplitWhitespace(lower)
        gaps == {i \in 1..Len(lower) : lower[i] = " "}
    IN  IF trimmed = <<>> THEN [ok |-> FALSE, err |-> "Empty", cmd |-> [kind |-> None, arg |-> ""]]
        ELSE [ok |-> TRUE, err |-> None,
              cmd |-> MatchVerb(words,
                                IF gaps = {} THEN <<>>
                                ELSE Strip(SubSeq(lower, 1 + (CHOOSE i \in gaps : \A j \in gaps : i <= j),
                                                  Len(lower))),
                                trimmed)]

\* a parse that takes the last piece of splitn(2) for the argument: the whole line
\* when there is no white space in it
ParseLastPiece(input) ==
    LET trimmed == Strip(input)
        words == SplitWhitespace(trimmed)
        gaps == {i \in 1..Len(trimmed) : trimmed[i] = " "}
    IN  IF trimmed = <<>> THEN [ok |-> FALSE, err |-> "Empty", cmd |-> [kind |-> None, arg |-> ""]]
        ELSE [ok |-> TRUE, err |-> None,
              cmd |-> MatchVerb([i \in 1..Len(words) |-> ToLowercase(words[i])],
                                IF gaps = {} THEN trimmed
                                ELSE Strip(SubSeq(trimmed, 1 + (CHOOSE i \in gaps : \A j \in gaps : i <= j),
                                                  Len(trimmed))),
                                trimmed)]

\* a parse whose Unknown carries the verb alone
ParseUnknownVerb(input) ==
    LET trimmed == Strip(input)
        words == SplitWhitespace(trimmed)
        gaps == {i \in 1..Len(trimmed) : trimmed[i] = " "}
    IN  IF trimmed = <<>> THEN [ok |-> FALSE, err |-> "Empty", cmd |-> [kind |-> None, arg |-> ""]]
        ELSE [ok |-> TRUE, err |-> None,
              cmd |-> MatchVerb([i \in 1..Len(words) |-> ToLowercase(words[i])],
                                IF gaps = {} THEN <<>>
                                ELSE Strip(SubSeq(trimmed, 1 + (CHOOSE i \in gaps : \A j \in gaps : i <= j),
                                                  Len(trimmed))),
                                <<ToLowercase(words[1])>>)]

\* Command::parse: [ok, err, cmd]; parts are split off the lower-cased line, and
\* rest_original is what follows the first white-space character of the trimmed one
Parse(input) ==
    LET trimmed == Strip(input)
        words == SplitWhitespace(trimmed)
        gaps == {i \in 1..Len(trimmed) : trimmed[i] = " "}
    IN  IF trimmed = <<>> THEN [ok |-> FALSE, err |-> "Empty", cmd |-> [kind |-> None, arg |-> ""]]
        ELSE [ok |-> TRUE, err |-> None,
              cmd |-> MatchVerb([i \in 1..Len(words) |-> ToLowercase(words[i])],
                                IF gaps = {} THEN <<>>
                                ELSE Strip(SubSeq(trimmed, 1 + (CHOOSE i \in gaps : \A j \in gaps : i <= j),
                                                  Len(trimmed))),
                                trimmed)]

\* Engine::add_system
DoEngineAddSystem(system) ==
    /\ engine' = [engine EXCEPT !.systems = Append(@, system)]
    /\ step_event' = NoCommand
    /\ step_out' = [lines |-> <<>>, panic |-> FALSE, invoked |-> <<>>]
    /\ parsed' = [called |-> FALSE, input |-> <<>>, ok |-> FALSE, cmd |-> NoCommand]

\* Engine::step
DoEngineStep(cmd) ==
    LET r == EngineStep(engine.systems, engine.state, cmd, <<>>)
    IN  /\ engine' = [engine EXCEPT !.state = r.state]
        /\ step_event' = cmd
        /\ step_out' = [lines |-> r.lines, panic |-> r.panic, invoked |-> r.invoked]
        /\ parsed' = [called |-> FALSE, input |-> <<>>, ok |-> FALSE, cmd |-> NoCommand]

\* a console's turn: Command::parse on the line; the command, if there is one, is
\* handed to Engine::step, and on ParseError::Empty the console prompts again
DoEngineLine(input) ==
    LET p == Parse(input)
        r == EngineStep(engine.systems, engine.state, p.cmd, <<>>)
    IN  /\ parsed' = [called |-> TRUE, input |-> input, ok |-> p.ok, cmd |-> p.cmd]
        /\ IF p.ok
           THEN /\ engine' = [engine EXCEPT !.state = r.state]
                /\ step_event' = p.cmd
                /\ step_out' = [lines |-> r.lines, panic |-> r.panic, invoked |-> r.invoked]
           ELSE /\ engine' = engine
                /\ step_event' = NoCommand
                /\ step_out' = [lines |-> <<>>, panic |-> FALSE, invoked |-> <<>>]

\* Engine::new
EngineInit ==
    /\ engine = [state |-> NewGameState, systems |-> <<"inventory", "basic_world">>]
    /\ step_event = NoCommand
    /\ step_out = [lines |-> <<>>, panic |-> FALSE, invoked |-> <<>>]
    /\ parsed = [called |-> FALSE, input |-> <<>>, ok |-> FALSE, cmd |-> NoCommand]

(***************************************************************************)
(* Adventure (adventure.rs): the document, its validation, its JSON file   *)
(* and the GameState made from it.  A Result is [ok, kind, msg, value].    *)
(* A JSON object is [obj |-> the sequence of its <<name, value>> members], *)
(* a JSON array a sequence, a JSON string a string.                        *)
(***************************************************************************)
\* str::trim, for the strings of the model: " " is the one with white space
Trim(str) == IF str = " " THEN "" ELSE str

\* Adventure::demo
Demo ==
    [id |-> "demo", title |-> "Demo Adventure", start_room |-> "village",
     rooms |-> << [id |-> "village", title |-> "Quiet Village", description |-> "A small village",
                   exits |-> [north |-> "forest"],
                   items |-> << [id |-> "key", name |-> "Ancient Key",
                                 description |-> "A tarnished key"] >>],
                  [id |-> "forest", title |-> "Whispering Forest", description |-> "Tall pines",
                   exits |-> [south |-> "village"], items |-> <<>>] >>,
     player_start_inventory |-> <<>>]

\* the Adventures a caller builds (the fields are public): the demo with another
\* id, title and start room, and the demo with other rooms and start room
Adventures ==
    LET Exits == { <<>>, [north |-> "forest", south |-> "village"], [north |-> "cave"],
                   [north |-> " "], [d \in {""} |-> "village"] }
        Rooms == { [id |-> i, title |-> "Room", description |-> "", exits |-> e, items |-> <<>>]
                   : i \in {"", " ", "village", "forest"}, e \in Exits }
    IN  { [Demo EXCEPT !.id = i, !.title = t, !.start_room = r]
          : i \in {"", " ", "demo"}, t \in {"", "Demo Adventure"},
            r \in {"", " ", "village", "cave"} }
        \cup { [Demo EXCEPT !.rooms = rooms, !.start_room = r]
               : rooms \in UNION { [1..n -> Rooms] : n \in 0..MaxRooms },
                 r \in {"village", "forest"} }

OkResult(value) == [ok |-> TRUE, kind |-> None, msg |-> <<>>, value |-> Some(value)]

ErrResult(kind, msg) == [ok |-> FALSE, kind |-> kind, msg |-> msg, value |-> <<>>]

\* a validate that compares the strings where the code trims them first
ValidateUntrimmed(adv) ==
    LET n == Len(adv.rooms)
        ids == {adv.rooms[i].id : i \in 1..n}
        Bad(i) == {d \in DOMAIN adv.rooms[i].exits :
                      d = "" \/ adv.rooms[i].exits[d] = "" \/ adv.rooms[i].exits[d] \notin ids}
    IN  IF adv.id = "" \/ adv.title = "" \/ adv.start_room = "" \/ n = 0
           \/ (\E i \in 1..n : adv.rooms[i].id = "")
           \/ (\E i, j \in 1..n : i < j /\ adv.rooms[i].id = adv.rooms[j].id)
           \/ adv.start_room \notin ids
           \/ (\E i \in 1..n : Bad(i) # {})
        THEN {ErrResult("Validation", <<"invalid">>)}
        ELSE {OkResult(<<>>)}

\* Adventure::validate: the outcomes; the first failing check decides the message,
\* and the exits of a room are checked in the map's iteration order, any order
Validate(adv) ==
    LET n == Len(adv.rooms)
        V(msg) == {ErrResult("Validation", msg)}
        ids == {adv.rooms[i].id : i \in 1..n}
        \* the rooms that the first loop rejects
        BadRoom(i) == \/ Trim(adv.rooms[i].id) = ""
                      \/ \E j \in 1..(i - 1) : adv.rooms[j].id = adv.rooms[i].id
        BadExit(i, d) == \/ Trim(d) = ""
                         \/ Trim(adv.rooms[i].exits[d]) = ""
                         \/ adv.rooms[i].exits[d] \notin ids
        BadExits(i) == {d \in DOMAIN adv.rooms[i].exits : BadExit(i, d)}
        First(S) == CHOOSE i \in S : \A j \in S : i <= j
    IN  IF Trim(adv.id) = "" THEN V(<<"adventure.id is required">>)
        ELSE IF Trim(adv.title) = "" THEN V(<<"adventure.title is required">>)
        ELSE IF Trim(adv.start_room) = "" THEN V(<<"adventure.start_room is required">>)
        ELSE IF n = 0 THEN V(<<"adventure.rooms must not be empty">>)
        ELSE IF \E i \in 1..n : BadRoom(i)
        THEN LET i == First({k \in 1..n : BadRoom(k)})
             IN  IF Trim(adv.rooms[i].id) = "" THEN V(<<"room.id is required">>)
                 ELSE V(<<"duplicate room id: ", adv.rooms[i].id>>)
        ELSE IF adv.start_room \notin ids
        THEN V(<<"start_room does not exist: ", adv.start_room>>)
        ELSE IF \E i \in 1..n : BadExits(i) # {}
        THEN LET i == First({k \in 1..n : BadExits(k) # {}})
                 id == adv.rooms[i].id
             IN  { ErrResult("Validation",
                      IF Trim(d) = "" THEN <<"room '", id, "' has an empty exit direction">>
                      ELSE IF Trim(adv.rooms[i].exits[d]) = ""
                      THEN <<"room '", id, "' exit '", d, "' has empty destination">>
                      ELSE <<"room '", id, "' exit '", d, "' points to unknown room '",
                             adv.rooms[i].exits[d], "'">>)
                   : d \in BadExits(i) }
        ELSE {OkResult(<<>>)}

\* Adventure::into_game_state: the outcomes.  Room::new is given
\* room.id.parse().unwrap_or(0), and the room is filed in the world under the id it
\* was made with (written as a string, as GameState::new files its rooms)
IntoGameState(adv, player_name) ==
    LET n == Len(adv.rooms)
        ParseOrZero(str) == CASE str = "1" -> 1 [] str = "2" -> 2 [] OTHER -> 0
        Decimal(k) == CASE k = 1 -> "1" [] k = 2 -> "2" [] OTHER -> "0"
        Key(i) == Decimal(ParseOrZero(adv.rooms[i].id))
        Last(k) == CHOOSE i \in 1..n : Key(i) = k /\ \A j \in (i + 1)..n : Key(j) # k
        Items(list) == [j \in 1..Len(list) |->
                           [id |-> Decimal(ParseOrZero(list[j].id)), name |-> list[j].name]]
    IN  { IF v.ok
          THEN OkResult([world |-> [k \in {Key(i) : i \in 1..n} |->
                                       [id |-> k, title |-> adv.rooms[Last(k)].title,
                                        description |-> adv.rooms[Last(k)].description,
                                        exits |-> adv.rooms[Last(k)].exits,
                                        items |-> Items(adv.rooms[Last(k)].items)]],
                         player |-> [name |-> player_name, location |-> adv.start_room,
                                     inventory |-> Items(adv.player_start_inventory)],
                         is_over |-> FALSE])
          ELSE v
          : v \in Validate(adv) }

\* a serializer that leaves the exits of the rooms out
ToJsonNoExits(adv) ==
    { [obj |-> << <<"id", adv.id>>, <<"title", adv.title>>, <<"start_room", adv.start_room>>,
                  <<"rooms", [i \in 1..Len(adv.rooms) |->
                                 [obj |-> << <<"id", adv.rooms[i].id>>,
                                             <<"title", adv.rooms[i].title>>,
                                             <<"description", adv.rooms[i].description>>,
                                             <<"items", <<>> >> >>]]>>,
                  <<"player_start_inventory", <<>> >> >>] }

\* serde_json::to_string_pretty of an Adventure: the texts; the members of a struct
\* come in the order of its fields, those of an exits map in any order
ToJson(adv) ==
    LET ExitOrders(f) == {o \in [1..Cardinality(DOMAIN f) -> DOMAIN f] :
                         \A i, j \in DOMAIN o : o[i] = o[j] => i = j}
        Item(it) == [obj |-> << <<"id", it.id>>, <<"name", it.name>>,
                               <<"description", it.description>> >>]
        Items(list) == [j \in 1..Len(list) |-> Item(list[j])]
        Room(r, o) == [obj |-> << <<"id", r.id>>, <<"title", r.title>>,
                                 <<"description", r.description>>,
                                 <<"exits", [obj |-> [i \in DOMAIN o |-> <<o[i], r.exits[o[i]]>>]]>>,
                                 <<"items", Items(r.items)>> >>]
        n == Len(adv.rooms)
        RoomOrders == {os \in [1..n -> UNION {ExitOrders(adv.rooms[i].exits) : i \in 1..n}] :
                          \A i \in 1..n : os[i] \in ExitOrders(adv.rooms[i].exits)}
    IN  { [obj |-> << <<"id", adv.id>>, <<"title", adv.title>>,
                      <<"start_room", adv.start_room>>,
                      <<"rooms", [i \in 1..n |-> Room(adv.rooms[i], os[i])]>>,
                      <<"player_start_inventory", Items(adv.player_start_inventory)>> >>]
          : os \in RoomOrders }

\* serde_json::from_str::<Adventure>: a member that is missing is an error unless the
\* field has #[serde(default)]; members of other names are skipped; of two map
\* members of one name the later stays
FromJson(text) ==
    LET Names(o) == {o.obj[i][1] : i \in DOMAIN o.obj}
        Get(o, name) == o.obj[CHOOSE i \in DOMAIN o.obj :
                                 o.obj[i][1] = name /\ \A j \in DOMAIN o.obj : j > i => o.obj[j][1] # name][2]
        Has(o, names) == names \subseteq Names(o)
        ItemOk(o) == Has(o, {"id", "name", "description"})
        Item(o) == [id |-> Get(o, "id"), name |-> Get(o, "name"),
                    description |-> Get(o, "description")]
        ItemsOk(list) == \A j \in DOMAIN list : ItemOk(list[j])
        Items(list) == [j \in 1..Len(list) |-> Item(list[j])]
        RoomOk(o) == /\ Has(o, {"id", "title", "description"})
                     /\ "items" \in Names(o) => ItemsOk(Get(o, "items"))
        Room(o) == [id |-> Get(o, "id"), title |-> Get(o, "title"),
                    description |-> Get(o, "description"),
                    exits |-> IF "exits" \in Names(o)
                              THEN [d \in Names(Get(o, "exits")) |-> Get(Get(o, "exits"), d)]
                              ELSE <<>>,
                    items |-> IF "items" \in Names(o) THEN Items(Get(o, "items")) ELSE <<>>]
    IN  IF /\ Has(text, {"id", "title", "start_room", "rooms"})
           /\ \A i \in DOMAIN Get(text, "rooms") : RoomOk(Get(text, "rooms")[i])
           /\ "player_start_inventory" \in Names(text)
                 => ItemsOk(Get(text, "player_start_inventory"))
        THEN OkResult([id |-> Get(text, "id"), title |-> Get(text, "title"),
                       start_room |-> Get(text, "start_room"),
                       rooms |-> [i \in 1..Len(Get(text, "rooms")) |-> Room(Get(text, "rooms")[i])],
                       player_start_inventory |->
                           IF "player_start_inventory" \in Names(text)
                           THEN Items(Get(text, "player_start_inventory")) ELSE <<>>])
        ELSE ErrResult("Json", <<"missing field">>)

\* adventure.validate()
DoValidate ==
    \E v \in Validate(adventure) :
        /\ adv_ret' = [op |-> "validate", ok |-> v.ok, kind |-> v.kind, msg |-> v.msg,
                       value |-> <<>>]
        /\ UNCHANGED <<adventure, json_file>>

\* adventure.into_game_state("Tester")
DoIntoGameState ==
    \E v \in IntoGameState(adventure, "Tester") :
        /\ adv_ret' = [op |-> "into_game_state", ok |-> v.ok, kind |-> v.kind, msg |-> v.msg,
                       value |-> v.value]
        /\ UNCHANGED <<adventure, json_file>>

\* adventure.save_json_file(path): validate, serialize, fs::write
DoSaveJsonFile ==
    \E v \in Validate(adventure) :
        /\ IF v.ok
           THEN \E t \in ToJson(adventure) : json_file' = [text |-> t, written_by |-> "save"]
           ELSE json_file' = json_file
        /\ adv_ret' = [op |-> "save", ok |-> v.ok, kind |-> v.kind, msg |-> v.msg,
                       value |-> <<>>]
        /\ UNCHANGED adventure

\* adventure = Adventure::load_json_file(path)?: fs::read_to_string, from_str,
\* validate; the caller keeps the adventure it held when the call fails
DoLoadJsonFile ==
    LET adv == IF json_file.written_by = None THEN ErrResult("Io", <<"No such file">>)
               ELSE FromJson(json_file.text)
    IN  \E r \in IF ~adv.ok THEN {adv}
                 ELSE { IF v.ok THEN adv ELSE v : v \in Validate(adv.value[1]) } :
            /\ adventure' = IF r.ok THEN r.value[1] ELSE adventure
            /\ adv_ret' = [op |-> "load", ok |-> r.ok, kind |-> r.kind, msg |-> r.msg,
                           value |-> <<>>]
            /\ UNCHANGED json_file

\* a caller that holds the demo and has called nothing
AdventureInit ==
    /\ adventure = Demo
    /\ json_file = [text |-> <<>>, written_by |-> None]
    /\ adv_ret = [op |-> None, ok |-> TRUE, kind |-> None, msg |-> <<>>, value |-> <<>>]

(***************************************************************************)
(* The services of pyport: IOService (io_service.rs), SystemRegistry       *)
(* (system_registry.rs) and ConfigService (config_service.rs).  A call's   *)
(* result is [ok, value]: Ok(value) or Err(value); an Option is <<>> or    *)
(* Some(x).                                                                *)
(***************************************************************************)
\* io.load_json(file_path) beside the file: fs::read_to_string fails with NotFound
\* when there is no file and with another error when the file cannot be read;
\* serde_json::from_str to a HashMap takes a JSON object and nothing else
LoadJson(file) ==
    LET from_str == CASE file.content = "{}" -> Some(<<>>)
                      [] file.content = "{\"a\": 1}" -> Some([name \in {"a"} |-> 1])
                      [] OTHER -> <<>>
    IN  IF ~file.exists THEN [ok |-> TRUE, value |-> <<>>]
        ELSE IF ~file.readable
             THEN [ok |-> FALSE, value |-> Some(<<"Error loading ", file.error>>)]
        ELSE IF from_str = <<>> THEN [ok |-> TRUE, value |-> <<>>]
        ELSE [ok |-> TRUE, value |-> Some(from_str[1])]

\* a factory.has_system that finds every system
HasSystemAlways(r, system_id) == TRUE

\* factory.has_system(system_id); r.systems are the keys of factory.systems
HasSystem(r, system_id) == system_id \in r.systems

\* registry.initialize_all(system_ids): the outcomes [registry, ok, value], value the
\* message of the error, the sorted list the loop went through and the systems
\* created, in order.  Without a list the keys of system_configs are taken in the
\* map's iteration order, which is any order; sort_by is stable.
InitializeAll(r, system_ids) ==
    LET Priority(id) == IF id \in DOMAIN r.priority THEN r.priority[id] ELSE 0
        IsEnabled(id) == id \in DOMAIN r.feature_flags /\ r.feature_flags[id]
        Dependencies(id) == IF id \in DOMAIN r.system_dependencies
                            THEN r.system_dependencies[id] ELSE <<>>
        keys == DOMAIN r.priority
        lists == IF system_ids = <<>>
                 THEN {list \in [1..Cardinality(keys) -> keys] :
                          \A i, j \in DOMAIN list : list[i] = list[j] => i = j}
                 ELSE {system_ids[1]}
        RECURSIVE Insert(_, _)
        Insert(sorted, x) ==
            IF sorted = <<>> THEN <<x>>
            ELSE IF Priority(x) > Priority(sorted[1]) THEN <<x>> \o sorted
            ELSE <<sorted[1]>> \o Insert(Tail(sorted), x)
        RECURSIVE Sort(_)
        Sort(list) == IF list = <<>> THEN <<>>
                      ELSE Insert(Sort(SubSeq(list, 1, Len(list) - 1)), list[Len(list)])
        RECURSIVE Loop(_, _, _, _)
        Loop(reg, list, order, created) ==
            IF list = <<>>
            THEN [registry |-> [reg EXCEPT !.initialized = TRUE], ok |-> TRUE,
                  value |-> [msg |-> <<>>, order |-> order, created |-> created]]
            ELSE LET system_id == list[1]
                     deps == Dependencies(system_id)
                     missing == {i \in 1..Len(deps) : ~HasSystem(reg, deps[i])}
                     Err(msg) == [registry |-> reg, ok |-> FALSE,
                                  value |-> [msg |-> msg, order |-> order, created |-> created]]
                 IN  IF ~IsEnabled(system_id) THEN Loop(reg, Tail(list), order, created)
                     ELSE IF missing # {}
                          THEN Err(<<"Dependency ", deps[CHOOSE i \in missing :
                                                            \A j \in missing : i <= j],
                                     " not initialized for ", system_id>>)
                     ELSE IF HasSystem(reg, system_id) THEN Loop(reg, Tail(list), order, created)
                     ELSE IF system_id \notin DOMAIN r.priority
                          THEN Err(<<"System ", system_id, " not configured">>)
                     ELSE IF system_id \notin reg.ctors
                          THEN Err(<<"system not registered: ", system_id>>)
                     ELSE Loop([reg EXCEPT !.systems = @ \cup {system_id}], Tail(list),
                               order, Append(created, system_id))
    IN  { Loop(r, Sort(list), Sort(list), <<>>) : list \in lists }

\* registry.shutdown_all()
ShutdownAll(r) == [r EXCEPT !.systems = {}, !.initialized = FALSE]

\* no service is held and no call was made
ServiceInit ==
    /\ service = [kind |-> None]
    /\ svc_ret = [op |-> None, before |-> None, arg |-> <<>>, ok |-> FALSE, value |-> <<>>]
    /\ set_keys = {}

\* key.split('.') for the keys of the model
Split(key) ==
    CASE key = "a" -> <<"a">>
      [] key = "b" -> <<"b">>
      [] key = "a.b" -> <<"a", "b">>
      [] key = "a.b.c" -> <<"a", "b", "c">>

\* get_dotted(root, key): a serde_json Value is [t, v] with t one of "Null",
\* "Number", "String", "Object", the v of an Object being its Map
GetDotted(root, key) ==
    LET RECURSIVE Walk(_, _)
        Walk(cur, parts) ==
            IF parts = <<>> THEN Some(cur)
            ELSE IF cur.t # "Object" THEN <<>>
            ELSE IF Head(parts) \notin DOMAIN cur.v THEN <<>>
            ELSE Walk(cur.v[Head(parts)], Tail(parts))
    IN  Walk(root, Split(key))

\* a set_dotted that leaves a non-object value on the path where it is
SetDottedKeepingValues(root, key, value) ==
    LET RECURSIVE Walk(_, _)
        Walk(cur, parts) ==
            IF Len(parts) = 1 THEN MapInsert(cur, Head(parts), value)
            ELSE IF Head(parts) \in DOMAIN cur /\ cur[Head(parts)].t # "Object" THEN cur
            ELSE LET next == IF Head(parts) \in DOMAIN cur
                                THEN cur[Head(parts)].v ELSE <<>>
                 IN  MapInsert(cur, Head(parts),
                               [t |-> "Object", v |-> Walk(next, Tail(parts))])
    IN  Walk(root, Split(key))

\* set_dotted(root, key, value): the Map after the call
SetDotted(root, key, value) ==
    LET RECURSIVE Walk(_, _)
        Walk(cur, parts) ==
            IF Len(parts) = 1 THEN MapInsert(cur, Head(parts), value)
            ELSE LET next == IF Head(parts) \in DOMAIN cur /\ cur[Head(parts)].t = "Object"
                                THEN cur[Head(parts)].v ELSE <<>>
                 IN  MapInsert(cur, Head(parts),
                               [t |-> "Object", v |-> Walk(next, Tail(parts))])
    IN  Walk(root, Split(key))

SubCount ==
    Len(wildcard_subscriptions) + Len(subscriptions["game.test"])
        + Len(subscriptions["game.other"])

BusInit ==
    /\ subscriptions = [n \in EventNames |-> <<>>]
    /\ wildcard_subscriptions = <<>>
    /\ history = <<>>
    /\ calls = <<>>
    /\ event = NoEvent

BusNext(maxSubs) ==
    \/ \E s \in EventSubscription :
          /\ SubCount < maxSubs
          /\ Subscribe(s.event_name, s.handler, s.priority, s.plugin_name)
          /\ UNCHANGED <<questVars, gameVars, stageVars, engineVars, advVars, serviceVars>>
    \/ \E n \in EventNames, c \in BOOLEAN :
          /\ Len(history) < MaxPublish
          /\ Publish(n, c)
          /\ UNCHANGED <<questVars, gameVars, stageVars, engineVars, advVars, serviceVars>>
    \/ ClearHistory /\ UNCHANGED <<questVars, gameVars, stageVars, engineVars, advVars, serviceVars>>
    \/ ClearAllSubscriptions /\ UNCHANGED <<questVars, gameVars, stageVars, engineVars, advVars, serviceVars>>

\* EventBus::new(false), as the bus's own tests build it
InitBus == BusInit /\ enable_history = FALSE /\ QuestInit /\ GameInit /\ EngineInit /\ AdventureInit /\ ServiceInit
NextBus == BusNext(MaxSubs)
SpecBus == InitBus /\ [][NextBus]_vars

\* EventBus::new(enable_history) with either value
InitBusHistory ==
    BusInit /\ enable_history \in BOOLEAN /\ QuestInit /\ GameInit /\ EngineInit /\ AdventureInit /\ ServiceInit
NextBusHistory == BusNext(MaxHistSubs)
SpecBusHistory == InitBusHistory /\ [][NextBusHistory]_vars

\* a QuestSystem driven through its public calls and through on_command
InitQuest == QuestInit /\ BusInit /\ enable_history = FALSE /\ GameInit /\ EngineInit /\ AdventureInit /\ ServiceInit

QuestCommands == {"quests", "accept", "complete", "look"}
QuestArgs == {<<>>} \cup {<<id>> : id \in QuestIds}

NextQuest ==
    \/ \E q \in QuestCatalog : DoAddAvailableQuest(q) /\ UNCHANGED <<busVars, advVars, serviceVars, gameVars, stageVars, engineVars>>
    \/ \E id \in QuestIds : ~HistoryFull /\ DoAcceptQuest(id) /\ UNCHANGED <<busVars, advVars, serviceVars, gameVars, stageVars, engineVars>>
    \/ \E q \in QuestCatalog : ~HistoryFull /\ DoTrackerAcceptQuest(q) /\ UNCHANGED <<busVars, advVars, serviceVars, gameVars, stageVars, engineVars>>
    \/ \E id \in QuestIds : ~HistoryFull /\ DoCompleteQuest(id) /\ UNCHANGED <<busVars, advVars, serviceVars, gameVars, stageVars, engineVars>>
    \/ \E id \in QuestIds : ~HistoryFull /\ DoFailQuest(id) /\ UNCHANGED <<busVars, advVars, serviceVars, gameVars, stageVars, engineVars>>
    \/ \E c \in QuestCommands, a \in QuestArgs :
          ~HistoryFull /\ DoQuestCommand(c, a) /\ UNCHANGED <<busVars, advVars, serviceVars, gameVars, stageVars, engineVars>>
    \/ DoLoadQuestsFromGame /\ UNCHANGED <<busVars, advVars, serviceVars, gameVars, stageVars, engineVars>>
    \/ Tick /\ UNCHANGED <<busVars, advVars, serviceVars, gameVars, stageVars, engineVars>>

SpecQuest == InitQuest /\ [][NextQuest]_vars

\* the QuestSystem as the player drives it: the pool comes from the adventure file
\* only, and every call is one that on_command makes
NextQuestPlay ==
    \/ DoLoadQuestsFromGame /\ UNCHANGED <<busVars, advVars, serviceVars, gameVars, stageVars, engineVars>>
    \/ \E id \in QuestIds : ~HistoryFull /\ DoAcceptQuest(id) /\ UNCHANGED <<busVars, advVars, serviceVars, gameVars, stageVars, engineVars>>
    \/ \E id \in QuestIds : ~HistoryFull /\ DoCompleteQuest(id) /\ UNCHANGED <<busVars, advVars, serviceVars, gameVars, stageVars, engineVars>>
    \/ \E c \in QuestCommands, a \in QuestArgs :
          ~HistoryFull /\ DoQuestCommand(c, a) /\ UNCHANGED <<busVars, advVars, serviceVars, gameVars, stageVars, engineVars>>
    \/ Tick /\ UNCHANGED <<busVars, advVars, serviceVars, gameVars, stageVars, engineVars>>

SpecQuestPlay == InitQuest /\ [][NextQuestPlay]_vars

\* a QuestTracker driven through accept_quest, complete_quest and fail_quest alone
NextTracker ==
    \/ \E q \in QuestCatalog :
          ~HistoryFull /\ DoTrackerAcceptQuest(q) /\ UNCHANGED <<busVars, advVars, serviceVars, gameVars, stageVars, engineVars>>
    \/ \E id \in QuestIds :
          ~HistoryFull /\ DoCompleteQuest(id) /\ UNCHANGED <<busVars, advVars, serviceVars, gameVars, stageVars, engineVars>>
    \/ \E id \in QuestIds :
          ~HistoryFull /\ DoFailQuest(id) /\ UNCHANGED <<busVars, advVars, serviceVars, gameVars, stageVars, engineVars>>
    \/ Tick /\ UNCHANGED <<busVars, advVars, serviceVars, gameVars, stageVars, engineVars>>

SpecTracker == InitQuest /\ [][NextTracker]_vars

\* a caller builds a quest of up to MaxStages stages and calls advance_stage and
\* is_complete on it
InitStage ==
    /\ staged_quest \in StagedQuests
    /\ quest_system = NewQuestSystem /\ now = 0 /\ ret = Ret(None, None, FALSE, <<>>)
    /\ BusInit /\ enable_history = FALSE /\ GameInit /\ EngineInit /\ AdventureInit /\ ServiceInit

NextStage ==
    \/ /\ DoAdvanceStage
       /\ staged_quest'.current_stage_index <= MaxStages
       /\ UNCHANGED <<busVars, advVars, serviceVars, gameVars, engineVars>>
    \/ DoIsComplete /\ UNCHANGED <<busVars, advVars, serviceVars, gameVars, engineVars>>

SpecStage == InitStage /\ [][NextStage]_vars

\* a caller builds a quest with rewards and a giver's level, or with one stage of up
\* to two objectives with counts, and asks for its rewards and percentages and
\* reports progress
InitObjective ==
    /\ staged_quest \in
          { [Quest("2", "Rewarded", {}, <<>>)
                EXCEPT !.quest_giver_level = giver, !.rewards = rewards]
            : giver \in 1..MaxLevel,
              rewards \in [experience_points : {0, 1, 90, MaxExperience},
                           gold : {0, 50},
                           items : {<<>>, <<"sword">>},
                           reputation_changes : {<<>>, [guild \in {"Rangers"} |-> 5]},
                           special_rewards : {<<>>, [name \in {"title"} |-> "Hero"]}] }
          \cup
          LET Counted == { [QuestObjective("Collect", "1", required)
                              EXCEPT !.current_count = current]
                           : required \in {0, 3, 100}, current \in {0, 1, 53, MaxCount} }
          IN  { Quest("3", "Counted", {}, <<objectives>>)
                : objectives \in {<<>>} \cup {<<a>> : a \in Counted}
                                 \cup {<<a, b>> : a \in Counted, b \in Counted} }
    /\ quest_system = NewQuestSystem /\ now = 0 /\ ret = Ret(None, None, FALSE, <<>>)
    /\ BusInit /\ enable_history = FALSE /\ GameInit /\ EngineInit /\ AdventureInit /\ ServiceInit

NextObjective ==
    \/ \E player_level \in 1..MaxLevel :
          DoGetLevelAdjustedRewards(player_level)
          /\ UNCHANGED <<busVars, advVars, serviceVars, gameVars, engineVars>>
    \/ \E i \in 0..2 :
          DoGetProgressPercentage(i) /\ UNCHANGED <<busVars, advVars, serviceVars, gameVars, engineVars>>
    \/ \E i \in 1..2, amount \in 1..MaxAmount :
          \* progress(amount) called on objective i of the first stage
          /\ staged_quest.stages # <<>>
          /\ i <= Len(staged_quest.stages[1])
          /\ LET r == Progress(staged_quest.stages[1][i], amount)
             IN  /\ staged_quest' = [staged_quest EXCEPT !.stages[1][i] = r.objective]
                 /\ ret' = Ret("progress", staged_quest.quest_id, TRUE, <<i, amount, r.value>>)
          /\ UNCHANGED <<quest_system, now, busVars, advVars, serviceVars, gameVars, engineVars>>

SpecObjective == InitObjective /\ [][NextObjective]_vars

\* the game: systems are registered in any order, each kind once, and commands are
\* typed at any time
InitGame == GameInit /\ QuestInit /\ BusInit /\ enable_history = FALSE /\ EngineInit /\ AdventureInit /\ ServiceInit

NextGame ==
    \/ \E system \in SystemKinds :
          /\ Len(game.systems) < MaxSystems
          /\ \A i \in 1..Len(game.systems) : game.systems[i] # system
          /\ DoAddSystem(system)
          /\ UNCHANGED <<busVars, advVars, serviceVars, stageVars, engineVars>>
    \/ \E text \in CommandTexts :
          /\ DoProcessCommand(text)
          /\ game'.turn_count <= MaxTurns
          /\ UNCHANGED <<busVars, advVars, serviceVars, stageVars, engineVars>>

SpecGame == InitGame /\ [][NextGame]_vars

\* the adventure files the player is started on: the file above, files that
\* load_adventure reads without complaint although an exit leads to no room, the
\* start room is no room, or an item lies in no room and on no monster, and the
\* file above with a rat that outlasts one blow, or with 0 for the forest's id (the
\* id load_adventure gives a room that states none)
AdventureFiles ==
    { AdventureFile,
      [AdventureFile EXCEPT !.rooms[1].exits = [north |-> 2, south |-> 9]],
      [AdventureFile EXCEPT !.start_room = 9],
      [AdventureFile EXCEPT !.items[2].location = 7],
      [AdventureFile EXCEPT !.monsters[1].hardiness = 12],
      [AdventureFile EXCEPT !.rooms[2].id = 0, !.rooms[1].exits = [north |-> 0],
                            !.items[2].location = 0, !.monsters[1].room_id = 0] }

\* the player program: load_adventure, the four systems registered in main's order,
\* then one process_command per line typed
InitPlayer ==
    /\ game \in { [LoadAdventure(file) EXCEPT
                      !.systems = <<"BasicWorld", "Inventory", "Combat", "Quest">>]
                  : file \in AdventureFiles }
    /\ command_text = <<>> /\ output = <<>> /\ invoked = <<>>
    /\ QuestInit /\ BusInit /\ enable_history = FALSE /\ EngineInit /\ AdventureInit /\ ServiceInit

NextPlayer ==
    \E text \in CommandTexts :
        /\ DoProcessCommand(text)
        /\ game'.turn_count <= MaxTurns
        /\ Len(game'.player.inventory) <= MaxInventory
        /\ UNCHANGED <<busVars, advVars, serviceVars, stageVars, engineVars>>

SpecPlayer == InitPlayer /\ [][NextPlayer]_vars

\* a caller holds one of the services and calls it: an IOService beside a file that
\* is missing, unreadable, or holds one of five texts, a SystemRegistry with two
\* systems defined, or a new ConfigService
InitServices ==
    /\ service \in
          { [kind |-> "IOService", file |-> file]
            : file \in { [exists |-> FALSE, readable |-> FALSE, content |-> "", error |-> ""],
                         [exists |-> TRUE, readable |-> FALSE, content |-> "",
                          error |-> "Permission denied"],
                         [exists |-> TRUE, readable |-> FALSE, content |-> "",
                          error |-> "stream did not contain valid UTF-8"] }
                       \cup { [exists |-> TRUE, readable |-> TRUE, content |-> text, error |-> ""]
                              : text \in {"{}", "{\"a\": 1}", "[1]", "{", ""} } }
          \cup
          \* SystemRegistry::new, factory.register for b and perhaps for a, define_system
          \* for a (no dependencies) and for b (depending on a)
          { [kind |-> "SystemRegistry", ctors |-> ctors, systems |-> {},
             feature_flags |-> [a |-> enabled, b |-> TRUE],
             priority |-> [a |-> 10, b |-> priority],
             system_dependencies |-> [a |-> <<>>, b |-> <<"a">>],
             initialized |-> FALSE]
            : ctors \in {{"a", "b"}, {"b"}}, enabled \in BOOLEAN, priority \in {9, 10, 11} }
          \cup
          \* ConfigService::new
          { [kind |-> "ConfigService", config |-> <<>>] }
    /\ svc_ret = [op |-> None, before |-> None, arg |-> <<>>, ok |-> FALSE, value |-> <<>>]
    /\ set_keys = {}
    /\ BusInit /\ enable_history = FALSE /\ QuestInit /\ GameInit /\ EngineInit /\ AdventureInit

NextServices ==
    \/ /\ service.kind = "IOService"
       /\ LET r == LoadJson(service.file)
          IN  svc_ret' = [op |-> "load_json", before |-> svc_ret.op, arg |-> <<>>,
                          ok |-> r.ok, value |-> r.value]
       /\ UNCHANGED <<service, set_keys, busVars, questVars, gameVars, stageVars, engineVars, advVars>>
    \/ /\ service.kind = "SystemRegistry"
       /\ \E system_ids \in {<<>>, Some(<<"a">>), Some(<<"b">>), Some(<<"a", "b">>),
                              Some(<<"b", "a">>)} :
             \E r \in InitializeAll(service, system_ids) :
                /\ service' = r.registry
                /\ svc_ret' = [op |-> "initialize_all", before |-> svc_ret.op,
                               arg |-> system_ids, ok |-> r.ok, value |-> r.value]
       /\ UNCHANGED <<set_keys, busVars, questVars, gameVars, stageVars, engineVars, advVars>>
    \/ /\ service.kind = "SystemRegistry"
       /\ service' = ShutdownAll(service)
       /\ svc_ret' = [op |-> "shutdown_all", before |-> svc_ret.op, arg |-> <<>>,
                      ok |-> TRUE, value |-> <<>>]
       /\ UNCHANGED <<set_keys, busVars, questVars, gameVars, stageVars, engineVars, advVars>>
    \* config.set(key, value)
    \/ /\ service.kind = "ConfigService"
       /\ \E key \in {"a", "b", "a.b", "a.b.c"},
             value \in { [t |-> "Number", v |-> 1], [t |-> "String", v |-> "X"],
                         [t |-> "Object", v |-> [b |-> [t |-> "Number", v |-> 1]]] } :
             /\ service' = [service EXCEPT !.config = SetDotted(@, key, value)]
             /\ set_keys' = set_keys \cup {key}
             /\ svc_ret' = [op |-> "set", before |-> svc_ret.op, arg |-> <<key, value>>,
                            ok |-> TRUE, value |-> <<>>]
       /\ UNCHANGED <<busVars, questVars, gameVars, stageVars, engineVars, advVars>>
    \* config.get(key, Value::Null)
    \/ /\ service.kind = "ConfigService"
       /\ \E key \in {"a", "b", "a.b", "a.b.c"} :
             LET default == [t |-> "Null", v |-> 0]
                 found == GetDotted([t |-> "Object", v |-> service.config], key)
             IN  svc_ret' = [op |-> "get", before |-> svc_ret.op, arg |-> <<key, default>>,
                             ok |-> TRUE,
                             value |-> IF found = <<>> THEN default ELSE found[1]]
       /\ UNCHANGED <<service, set_keys, busVars, questVars, gameVars, stageVars, engineVars,
                      advVars>>

SpecServices == InitServices /\ [][NextServices]_vars

\* an Engine: systems are added to the two of Engine::new, and commands are stepped
InitEngine == EngineInit /\ AdventureInit /\ ServiceInit /\ GameInit /\ QuestInit /\ BusInit /\ enable_history = FALSE

NextEngine ==
    \/ \E system \in {"inventory", "basic_world"} :
          /\ Len(engine.systems) < MaxEngineSystems
          /\ DoEngineAddSystem(system)
          /\ UNCHANGED <<busVars, advVars, serviceVars, questVars, gameVars, stageVars>>
    \/ \E cmd \in EngineCommands :
          /\ DoEngineStep(cmd)
          /\ UNCHANGED <<busVars, advVars, serviceVars, questVars, gameVars, stageVars>>
    \/ \E str \in { "", "  ", " look ", "help", "?", "look", "l", "inv", "inventory", "i",
                     "quit", "exit", "q", "QUIT", "Q", "quit now",
                     "n", "north", "s", "south", "e", "east", "w", "west",
                     "go north", "GO North", "go north please", "move s", "go up", "go",
                     "move", "take Ancient Key", "TAKE Ancient Key", "take  Key", "take ",
                     "take", "get Key", "get", "drop ANCIENT KEY", "drop", "use Key", "use",
                     "say Hello There", "say", "xyzzy", "Open Door", " Open Door" } :
          /\ DoEngineLine(Lexemes(str))
          /\ UNCHANGED <<busVars, advVars, serviceVars, questVars, gameVars, stageVars>>

SpecEngine == InitEngine /\ [][NextEngine]_vars

\* an Adventure that a caller built, or the demo beside a file that an author
\* wrote; it is validated, saved, loaded and made into a GameState in any order
InitAdventure ==
    LET Without(o, name) == [obj |-> SelectSeq(o.obj, LAMBDA m : m[1] # name)]
        Texts == UNION { ToJson(a) : a \in {b \in Adventures :
                                               b.rooms = Demo.rooms \/ Len(b.rooms) <= 1} }
        DemoText == CHOOSE t \in ToJson(Demo) : TRUE
        Bare == [obj |-> << <<"id", "demo">>, <<"title", "Demo Adventure">>,
                            <<"comment", "written by hand">>, <<"start_room", "cave">>,
                            <<"rooms", << [obj |-> << <<"id", "cave">>, <<"title", "Cave">>,
                                                      <<"description", "">>,
                                                      <<"exits", [obj |-> << <<"south", "cave">>,
                                                                             <<"north", "cave">> >>]>>
                                                      >>] >> >> >>]
        Authored == Texts \cup {Bare}
                    \cup { Without(DemoText, name)
                           : name \in {"id", "rooms", "player_start_inventory"} }
    IN  /\ \/ adventure \in Adventures /\ json_file = [text |-> <<>>, written_by |-> None]
           \/ adventure = Demo /\ json_file \in {[text |-> t, written_by |-> "author"] : t \in Authored}
        /\ adv_ret = [op |-> None, ok |-> TRUE, kind |-> None, msg |-> <<>>, value |-> <<>>]
        /\ EngineInit /\ GameInit /\ QuestInit /\ BusInit /\ enable_history = FALSE
        /\ ServiceInit

NextAdventure ==
    \/ DoValidate /\ UNCHANGED <<busVars, questVars, gameVars, stageVars, engineVars, serviceVars>>
    \/ DoIntoGameState /\ UNCHANGED <<busVars, questVars, gameVars, stageVars, engineVars, serviceVars>>
    \/ DoSaveJsonFile /\ UNCHANGED <<busVars, questVars, gameVars, stageVars, engineVars, serviceVars>>
    \/ DoLoadJsonFile /\ UNCHANGED <<busVars, questVars, gameVars, stageVars, engineVars, serviceVars>>

SpecAdventure == InitAdventure /\ [][NextAdventure]_vars

(***************************************************************************)
(* Event bus claims                                                        *)
(***************************************************************************)
\* the order the contract states, written out without the bus's own comparison
RankOrder == <<"Critical", "High", "Normal", "Low">>
RankOf(p) == CHOOSE i \in 1..Len(RankOrder) : RankOrder[i] = p

LexLess(a, b) ==
    \E k \in 0..Len(a) :
        /\ k <= Len(b)
        /\ \A i \in 1..k : a[i] = b[i]
        /\ \/ k = Len(a) /\ k < Len(b)
           \/ k < Len(a) /\ k < Len(b) /\ a[k + 1] < b[k + 1]

\* s may run before t
MayPrecede(s, t) ==
    \/ RankOf(s.priority) < RankOf(t.priority)
    \/ RankOf(s.priority) = RankOf(t.priority) /\ ~LexLess(t.plugin_name, s.plugin_name)

Count(seq, x) == Cardinality({i \in 1..Len(seq) : seq[i] = x})

\* the subscriptions a publish of the name reaches
Matching(name) == subscriptions[name] \o wildcard_subscriptions

AllRan(name) == \A s \in EventSubscription : Count(calls, s) = Count(Matching(name), s)

Published == event # NoEvent

\* C2: in one publish the handlers run in ascending priority rank and, within a
\* priority, in lexicographic order of the subscriber identifier; a publish that is
\* not cancelled runs every handler subscribed to the name or to the wildcard.
C2_PriorityThenIdOrder ==
    Published =>
        /\ \A i, j \in 1..Len(calls) : i < j => MayPrecede(calls[i], calls[j])
        /\ ~event.cancelled => AllRan(event.name)

C2_Witness ==
    /\ Published
    /\ Len(calls) >= 3
    /\ \E i, j \in 1..Len(calls) :
          calls[i].priority = calls[j].priority /\ calls[i].plugin_name # calls[j].plugin_name
    /\ \E i, j \in 1..Len(calls) : calls[i].priority # calls[j].priority

\* C3: a cancellable publish that reaches a cancelling handler stops there: the
\* canceller is the last handler called, no subscription that comes later in the
\* order (specific or wildcard) is called, and the returned event is cancelled.
C3_CancelStops ==
    (Published /\ event.cancellable
        /\ \E i \in 1..Len(Matching(event.name)) : Matching(event.name)[i].handler = "cancel")
    =>  /\ event.cancelled
        /\ calls # <<>>
        /\ calls[Len(calls)].handler = "cancel"
        /\ \A i \in 1..(Len(calls) - 1) : calls[i].handler # "cancel"
        /\ \A s \in EventSubscription :
              (Count(Matching(event.name), s) > 0 /\ ~MayPrecede(s, calls[Len(calls)]))
                  => Count(calls, s) = 0

C3_Witness ==
    /\ Published
    /\ event.cancelled
    /\ Len(calls) = 2
    /\ \E i \in 1..Len(wildcard_subscriptions) : Count(calls, wildcard_subscriptions[i]) = 0

\* C4: in a publish that is not cancellable a handler's cancel() does nothing: every
\* subscribed handler, specific and wildcard, runs and the returned event is not
\* cancelled.
C4_NonCancellableIgnoresCancel ==
    (Published /\ ~event.cancellable) => (~event.cancelled /\ AllRan(event.name))

C4_Witness ==
    /\ Published
    /\ ~event.cancellable
    /\ Len(calls) = 3
    /\ calls[1].handler = "cancel"
    /\ \E i \in 1..Len(calls) : calls[i].event_name = Wildcard
    /\ \E i \in 1..Len(calls) : calls[i].event_name # Wildcard

\* C5: the wildcard subscriptions are merged with the specific ones into one order:
\* of a wildcard and a specific handler that both ran, the one with the smaller
\* (priority, subscriber id) ran first, whichever of the two it is.
C5_WildcardInterleaved ==
    Published =>
        \A i, j \in 1..Len(calls) :
            (i < j /\ (calls[i].event_name = Wildcard) # (calls[j].event_name = Wildcard))
                => MayPrecede(calls[i], calls[j])

C5_Witness ==
    /\ Published
    /\ Len(calls) = 3
    /\ calls[1].event_name # Wildcard
    /\ calls[2].event_name = Wildcard
    /\ calls[3].event_name # Wildcard
    /\ calls[1].priority # calls[2].priority
    /\ calls[2].priority # calls[3].priority

\* the indexes of the log's entries that the filter lets through
Hits(filter) == {i \in 1..Len(history) : filter = None \/ history[i].name = filter}

Min(a, b) == IF a < b THEN a ELSE b

\* C6: with history enabled every publish, cancelled or not, with or without
\* subscribers, appends one entry, and history(filter, limit) is the last
\* min(limit, n) of the n entries the filter lets through, in log order; with
\* history disabled the log stays empty and history() returns the empty list.
C6_HistoryLog ==
    /\ [][Published' => history' = IF enable_history
                                   THEN Append(history, [event' EXCEPT !.cancelled = FALSE])
                                   ELSE <<>>]_vars
    /\ [](\A filter \in EventNames \cup {None}, limit \in 0..(MaxPublish + 1) :
            LET h == History(filter, limit)
                n == Cardinality(Hits(filter))
            IN  IF ~enable_history THEN h = <<>>
                ELSE /\ Len(h) = Min(limit, n)
                     /\ \A k \in 1..Len(h) :
                           \E i \in Hits(filter) :
                               /\ h[k] = history[i]
                               /\ Cardinality({m \in Hits(filter) : m > i}) = Len(h) - k)

C6_Witness ==
    /\ enable_history
    /\ Published
    /\ event.cancelled
    /\ Len(history) = 2
    /\ history[1].name # history[2].name
    /\ calls # <<>>

(***************************************************************************)
(* Quest engine claims                                                     *)
(***************************************************************************)
Available == DOMAIN quest_system.available_quests
Active == DOMAIN quest_system.tracker.active_quests
Completed == quest_system.tracker.completed_quests
Failed == quest_system.tracker.failed_quests

\* the step is a call op(id) of the quest engine
Called(op, id) == ret'.op = op /\ ret'.quest_id = id /\ now' = now

\* the step appends exactly the record (id, status, now) to the history log
Appends(id, status) ==
    quest_system'.tracker.quest_history =
        Append(quest_system.tracker.quest_history, <<id, status, now>>)

\* C7: accept_quest on a quest of the available pool returns an error and changes
\* nothing when one of its prerequisites is not in the completed set, and succeeds,
\* with the quest in the active map, when all of them are.
C7_AcceptFollowsPrerequisites ==
    [][\A id \in QuestIds :
          (Called("accept_quest", id) /\ id \in Available) =>
              IF \E p \in quest_system.available_quests[id].prerequisites : p \notin Completed
              THEN ~ret'.ok /\ quest_system' = quest_system
              ELSE ret'.ok /\ id \in DOMAIN quest_system'.tracker.active_quests]_vars

\* C8: a successful accept moves the quest from the available pool into the active
\* map with status Active, stamped, with one history record; an id that is active or
\* completed is refused; so no id is at once in the available pool and in the active
\* map, and a completed id is never active again.
C8_AcceptMovesQuest ==
    /\ [][\A id \in QuestIds :
             Called("accept_quest", id) =>
                 /\ ret'.ok =>
                       /\ id \notin DOMAIN quest_system'.available_quests
                       /\ id \in DOMAIN quest_system'.tracker.active_quests
                       /\ quest_system'.tracker.active_quests[id].status = "Active"
                       /\ quest_system'.tracker.active_quests[id].acceptance_time = Some(now)
                       /\ Appends(id, "Active")
                 /\ (id \in Active \/ id \in Completed) => ~ret'.ok]_vars
    /\ [][\A id \in Completed : id \notin DOMAIN quest_system'.tracker.active_quests]_vars
    /\ [](Available \cap Active = {})

\* C9: complete_quest succeeds only for an active quest whose completion predicate
\* holds; for an active quest whose predicate does not hold it is refused and
\* changes nothing; a successful complete moves the id from the active map into the
\* completed set and appends one history record.
C9_CompleteNeedsPredicate ==
    [][\A id \in QuestIds :
          Called("tracker.complete_quest", id) =>
              /\ ret'.ok =>
                    /\ id \in Active
                    /\ QuestIsComplete(quest_system.tracker.active_quests[id])
                    /\ quest_system'.tracker.completed_quests = Completed \cup {id}
                    /\ id \notin DOMAIN quest_system'.tracker.active_quests
                    /\ Appends(id, "Completed")
              /\ (id \in Active /\ ~QuestIsComplete(quest_system.tracker.active_quests[id]))
                    => (~ret'.ok /\ quest_system' = quest_system)]_vars

\* C10: no quest id is in the active map and also in the completed set or in the
\* failed set.
C10_ActiveDisjointFromFinished == Active \cap (Completed \cup Failed) = {}

\* C13: fail_quest succeeds exactly when the quest id is in the active map, at any
\* stage and whatever the objective progress: the id is then in the failed set and
\* no longer in the active map, and one Failed history record is appended; for an id
\* that is not active it returns false and changes nothing.
C13_FailExactlyWhenActive ==
    [][\A id \in QuestIds :
          Called("tracker.fail_quest", id) =>
              /\ ret'.ok = (id \in Active)
              /\ ret'.ok =>
                    /\ quest_system'.tracker.failed_quests = Failed \cup {id}
                    /\ id \notin DOMAIN quest_system'.tracker.active_quests
                    /\ quest_system'.tracker.completed_quests = Completed
                    /\ Appends(id, "Failed")
              /\ ~ret'.ok => quest_system' = quest_system]_vars

\* a quest with nothing left to do (it has no objective) has just been failed
C13_Witness ==
    /\ ret.op = "tracker.fail_quest"
    /\ ret.ok
    /\ ret.quest_id \in Failed
    /\ ret.quest_id \notin Active
    /\ ret.quest_id \notin Completed
    /\ \E i \in 1..Len(quest_system.tracker.quest_history) :
          quest_system.tracker.quest_history[i][2] = "Active"
    /\ \A q \in QuestCatalog : q.quest_id = ret.quest_id => QuestIsComplete(q)

\* the status a tracker operation gives the quest when it succeeds
NewStatus(op) ==
    CASE op = "tracker.accept_quest" -> "Active"
      [] op = "tracker.complete_quest" -> "Completed"
      [] op = "tracker.fail_quest" -> "Failed"

\* C14: the quest history log is append-only: no accept, complete or fail operation
\* modifies, reorders or removes an existing record; a successful one appends exactly
\* one record with the quest id and its new status, a rejected one appends nothing.
C14_HistoryAppendOnly ==
    [][LET log == quest_system.tracker.quest_history
           log2 == quest_system'.tracker.quest_history
       IN  /\ Len(log2) >= Len(log) /\ SubSeq(log2, 1, Len(log)) = log
           /\ \A id \in QuestIds :
                 \A op \in {"tracker.accept_quest", "tracker.complete_quest", "tracker.fail_quest"} :
                    Called(op, id) =>
                       IF ret'.ok THEN log2 = Append(log, <<id, NewStatus(op), now>>)
                       ELSE log2 = log]_vars

\* a rejected operation after an accept and a fail were recorded at different times
C14_Witness ==
    /\ Len(quest_system.tracker.quest_history) = 2
    /\ quest_system.tracker.quest_history[1][2] = "Active"
    /\ quest_system.tracker.quest_history[2][2] = "Failed"
    /\ quest_system.tracker.quest_history[1][3] # quest_system.tracker.quest_history[2][3]
    /\ ret.op = "tracker.complete_quest"
    /\ ~ret.ok

(***************************************************************************)
(* Claims about AdventureGame                                              *)
(***************************************************************************)
\* the answers a registered system gives to the command text in the current state
Answers(system, text) ==
    LET parts == SplitWhitespace(text)
    IN  { o.out : o \in OnCommand(system, [game EXCEPT !.systems = <<>>], quest_system,
                                  IF parts = <<>> THEN "" ELSE parts[1],
                                  IF parts = <<>> THEN <<>> ELSE Tail(parts), now) } \ {<<>>}

\* C1: process_command offers the command to the systems in registration order; the
\* first system that returns Some decides the returned lines and no later system is
\* invoked; when every system returns None the one returned line is
\* "Unknown command: " followed by the original text, and every system was invoked.
C1_FirstResponderDecides ==
    [][output' # <<>> =>
          LET systems == game.systems
              first == {i \in 1..Len(systems) :
                           /\ Answers(systems[i], command_text') # {}
                           /\ \A j \in 1..(i - 1) : Answers(systems[j], command_text') = {}}
          IN  /\ game'.systems = systems
              /\ IF first = {}
                 THEN /\ output' = << <<"Unknown command: ", command_text'>> >>
                      /\ invoked' = systems
                 ELSE \A k \in first :
                         /\ output' \in { <<a[1]>> : a \in Answers(systems[k], command_text') }
                         /\ invoked' = SubSeq(systems, 1, k)]_vars

\* a command the first system declined, the second answered, and a third never saw
C1_Witness ==
    /\ Len(game.systems) = 3
    /\ Len(invoked) = 2
    /\ output # <<>>
    /\ output[1][1] # "Unknown command: "

\* C20: after process_command returns, the game's system list holds exactly the
\* systems registered before the call, in the same order, whichever system
\* responded or if none did.
C20_SystemsReattached ==
    [][command_text' # <<>> \/ output' # <<>> => game'.systems = game.systems]_vars

\* three systems are registered and none of them answered the command
C20_Witness ==
    /\ Len(game.systems) = 3
    /\ invoked = game.systems
    /\ output = << <<"Unknown command: ", command_text>> >>

(***************************************************************************)
(* Claims about a Quest's stages                                           *)
(***************************************************************************)
\* C11: advance_stage called when no stage remains after the current index returns
\* false and leaves current_stage_index unchanged, for every quest, one with zero
\* stages included; no call underflows, overflows or goes out of bounds; and after
\* any sequence of calls current_stage_index still indexes a valid stage.
C11_AdvanceStageStaysInBounds ==
    /\ [][ret'.op = "advance_stage" =>
             /\ ret'.value # Panic
             /\ staged_quest.current_stage_index + 1 >= Len(staged_quest.stages) =>
                   ~ret'.ok /\ staged_quest' = staged_quest]_vars
    /\ [](staged_quest.stages # <<>> =>
            staged_quest.current_stage_index < Len(staged_quest.stages))

\* the completion predicate: the quest is on its final stage and every non-optional
\* objective of that stage has current_count >= required_count
OnFinalStageWithRequiredDone(q) ==
    /\ q.stages # <<>>
    /\ q.current_stage_index = Len(q.stages) - 1
    /\ \A o \in {q.stages[Len(q.stages)][i] : i \in 1..Len(q.stages[Len(q.stages)])} :
          o.is_optional \/ o.current_count >= o.required_count

\* C12: is_complete returns true exactly when the quest is on its final stage and
\* every non-optional objective of that stage is satisfied, and false otherwise.
C12_IsCompleteDecidesPredicate ==
    [][ret'.op = "is_complete" =>
          /\ ret'.value # Panic
          /\ ret'.ok = OnFinalStageWithRequiredDone(staged_quest)]_vars

C31_ProgressPercentages ==
    [][ret'.op = "get_progress_percentage" =>
          LET i == ret'.value[1]
              got == ret'.value[2]
              objectives == staged_quest.stages[1]
              Of(o) == IF o.required_count = 0 THEN 100
                       ELSE (o.current_count * 100) \div o.required_count
              RECURSIVE Total(_)
              Total(k) == IF k = 0 THEN 0 ELSE Total(k - 1) + Of(objectives[k])
          IN  IF i > 0 THEN got = Of(objectives[i])
              ELSE IF objectives = <<>> THEN got = 100
              ELSE got = Total(Len(objectives)) \div Len(objectives)]_vars

\* C38: progress(amount) with amount > 0 on an objective whose current_count does
\* not exceed required_count raises current_count by amount, capped at
\* required_count, and returns the increase applied
C38_ProgressRaisesCount ==
    [][ret'.op = "progress" =>
          LET i == ret'.value[1]
              amount == ret'.value[2]
              before == staged_quest.stages[1][i]
              after == staged_quest'.stages[1][i]
              raised == IF before.current_count + amount < before.required_count
                        THEN before.current_count + amount ELSE before.required_count
          IN  before.current_count <= before.required_count =>
                 /\ after.current_count = raised
                 /\ ret'.value[3] = raised - before.current_count]_vars

(***************************************************************************)
(* Claims about the world of the AdventureGame                             *)
(***************************************************************************)
\* the last command typed was a move in direction d: "d" or "go d"
MovedTo(d) == output' # <<>> /\ SplitWhitespace(command_text') \in {<<d>>, <<"go", d>>}

\* C15: move_player(D) from any room R succeeds, and the current room becomes the
\* declared destination, for every direction D declared in R's exits; for every
\* direction not in R's exits it fails and the current room is unchanged.
C15_MoveFollowsExits ==
    [][\A d \in {"north", "south"} :
          MovedTo(d) =>
              LET R == game.player.current_room
              IN  IF R \in DOMAIN game.rooms /\ d \in DOMAIN game.rooms[R].exits
                  THEN /\ output'[1][1] = "You move "
                       /\ game'.player.current_room = game.rooms[R].exits[d]
                  ELSE /\ output'[1][1] # "You move "
                       /\ game'.player.current_room = R]_vars

\* C17: feeding the same command sequence to the same initial world always produces
\* the same resulting world state and the same output lines: from the state a
\* sequence has led to, every command has one outcome, whatever the iteration order
\* of the maps.
C17_ReplayDeterminism ==
    \A text \in CommandTexts :
        \A r1, r2 \in ProcessCommand(game, quest_system, text, now) :
            r1.game = r2.game /\ r1.output = r2.output

\* C18: after loading and after any sequence of commands the player's current room
\* is a room of the world, so that resolving it never fails.
C18_CurrentRoomExists == game.player.current_room \in DOMAIN game.rooms

\* C19: after loading and after any sequence of take, drop and move commands every
\* item's location is the inventory sentinel 0, the worn sentinel -1, or the id of
\* a room or of a monster of the world.
C19_ItemLocationsResolve ==
    \A id \in DOMAIN game.items :
        game.items[id].location \in {0, -1} \cup DOMAIN game.rooms \cup DOMAIN game.monsters

\* C32: once a monster's dead flag is set no command clears it, and a dead monster
\* is not in its room for an attack: attacking it (no live monster of the room
\* answering to the name) reports that there is nothing to attack
C32_DeadStaysDead ==
    [][\A id \in DOMAIN game.monsters :
          game.monsters[id].is_dead =>
             /\ id \in DOMAIN game'.monsters /\ game'.monsters[id].is_dead
             /\ LET parts == SplitWhitespace(command_text')
                    attacked == /\ Len(parts) > 1 /\ parts[1] \in {"attack", "fight"}
                                /\ game.monsters[id].room_id = game.player.current_room
                                /\ Contains(ToLowercase(game.monsters[id].name),
                                            ToLowercase(parts[2]))
                                /\ \A other \in DOMAIN game.monsters :
                                      ~game.monsters[other].is_dead =>
                                          \/ game.monsters[other].room_id # game.player.current_room
                                          \/ ~Contains(ToLowercase(game.monsters[other].name),
                                                       ToLowercase(parts[2]))
                IN  attacked =>
                       /\ output' = << <<"There's no ", parts[2], " here to attack.">> >>
                       /\ game' = game]_vars

\* the rat lies dead in the forest, the player stands there and has attacked it again
C32_Witness ==
    /\ game.monsters[1].is_dead
    /\ game.monsters[1].room_id = game.player.current_room
    /\ command_text = <<"attack", " ", "rat">>
    /\ output = << <<"There's no ", "rat", " here to attack.">> >>

\* C36: with the player's chain (BasicWorld, Inventory, Combat, Quest) a verb that a
\* system recognizes and acts on, such as look or l, is consumed by that system:
\* process_command offers it to no later system and does not answer "Unknown
\* command" for it
C36_LookIsConsumed ==
    [][LET parts == SplitWhitespace(command_text')
       IN  parts # <<>> /\ parts[1] \in {"look", "l"} =>
              /\ invoked' = <<"BasicWorld">>
              /\ output' # << <<"Unknown command: ", command_text'>> >>]_vars

\* C37: an attack that does not kill lowers the monster's stored current health by
\* the damage dealt: the "health left" reported is the health stored, it is the
\* health before less the damage, and it is not below 0
C37_AttackLowersStoredHealth ==
    [][output' # <<>> /\ output'[1][1] = "You attack the " =>
          \E id \in DOMAIN game.monsters :
              /\ game.monsters[id].name = output'[1][2]
              /\ output'[1][6] = game.monsters[id].current_health[1] - output'[1][4]
              /\ output'[1][6] >= 0
              /\ game'.monsters[id].current_health = Some(output'[1][6])]_vars

\* C39: after loading and after any sequence of take, drop and move commands an
\* item id is in the player's inventory list exactly when the item's location is
\* the inventory sentinel 0, it is there at most once, and an item held in the
\* inventory is listed among the items of no room, a room of id 0 included
C39_InventoryIsSentinel ==
    LET inv == game.player.inventory
    IN  /\ \A id \in DOMAIN game.items :
              (\E i \in 1..Len(inv) : inv[i] = id) <=> game.items[id].location = 0
        /\ \A i, j \in 1..Len(inv) : inv[i] = inv[j] => i = j
        /\ \A i \in 1..Len(inv), room_id \in DOMAIN game.rooms :
              inv[i] \notin GetItemsInRoom(game, room_id)

(***************************************************************************)
(* Claims about the Adventure                                              *)
(***************************************************************************)
\* one of the listed defects holds of the adventure, Empty saying which strings
\* count as empty
Defective(adv, Empty(_)) ==
    LET n == Len(adv.rooms)
        ids == {adv.rooms[i].id : i \in 1..n}
    IN  \/ Empty(adv.id) \/ Empty(adv.title) \/ Empty(adv.start_room)
        \/ n = 0
        \/ \E i \in 1..n : Empty(adv.rooms[i].id)
        \/ \E i, j \in 1..n : i # j /\ adv.rooms[i].id = adv.rooms[j].id
        \/ \E i \in 1..n : \E d \in DOMAIN adv.rooms[i].exits :
              Empty(d) \/ Empty(adv.rooms[i].exits[d]) \/ adv.rooms[i].exits[d] \notin ids
        \/ adv.start_room \notin ids

\* C22: validate returns Ok exactly when none of these holds, and a Validation error
\* otherwise: empty id, empty title, empty start room, no rooms, a room with an
\* empty id, two rooms with the same id, an exit with an empty direction or an
\* empty destination, an exit whose destination is no room id, a start room that
\* is no room id.
C22_ValidateOkExactly ==
    [][adv_ret'.op = "validate" =>
          /\ adv_ret'.ok <=> ~Defective(adventure, LAMBDA str : str = "")
          /\ ~adv_ret'.ok => adv_ret'.kind = "Validation"]_vars

\* C22 as amended: the same, a string of white space alone counting as empty.
C22_ValidateOkExactlyTrimmed ==
    [][adv_ret'.op = "validate" =>
          /\ adv_ret'.ok <=> ~Defective(adventure, LAMBDA str : Trim(str) = "")
          /\ ~adv_ret'.ok => adv_ret'.kind = "Validation"]_vars

\* validate has refused an adventure whose only defect is an id of white space
C22_Witness ==
    /\ adv_ret.op = "validate"
    /\ ~adv_ret.ok /\ adv_ret.kind = "Validation"
    /\ adventure.id = " "
    /\ ~Defective(adventure, LAMBDA str : str = "")

\* C23: for every adventure that passes validation, into_game_state yields a game
\* state in which the player's location is the adventure's start room and the
\* world has an entry under each of the adventure's room ids, so that distinct
\* rooms stay distinct and the start room resolves.
C23_IntoGameStateKeepsRooms ==
    [][(adv_ret'.op = "into_game_state" /\ ~Defective(adventure, LAMBDA str : Trim(str) = "")) =>
          /\ adv_ret'.ok
          /\ LET state == adv_ret'.value[1]
                 n == Len(adventure.rooms)
             IN  /\ state.player.location = adventure.start_room
                 /\ \A i \in 1..n : adventure.rooms[i].id \in DOMAIN state.world
                 /\ Cardinality(DOMAIN state.world) = n
                 /\ state.player.location \in DOMAIN state.world]_vars

\* C24: for every valid adventure document, load then save then load again yields
\* an adventure equal to the first load, whatever the order of the map members in
\* the file; save refuses an invalid adventure with a validation error.
C24_LoadSaveLoad ==
    [][/\ (adv_ret'.op = "load" /\ json_file.written_by = "save") =>
             adv_ret'.ok /\ adventure' = adventure
       /\ adv_ret'.op = "save" =>
             IF Defective(adventure, LAMBDA str : Trim(str) = "")
             THEN ~adv_ret'.ok /\ adv_ret'.kind = "Validation" /\ json_file' = json_file
             ELSE adv_ret'.ok /\ json_file'.written_by = "save"]_vars

\* the cave that an author wrote was loaded, saved, and loaded again
C24_Witness ==
    /\ adv_ret.op = "load" /\ adv_ret.ok
    /\ json_file.written_by = "save"
    /\ adventure.start_room = "cave"
    /\ DOMAIN adventure.rooms[1].exits = {"north", "south"}

(***************************************************************************)
(* Claims about the services                                               *)
(***************************************************************************)
\* C33: IOService::load_json returns Ok(None) only when the file does not exist; an
\* unreadable file and content that is not valid JSON are returned as an error
C33_LoadJsonSwallowsNothing ==
    [][svc_ret'.op = "load_json" =>
          /\ (svc_ret'.ok /\ svc_ret'.value = <<>>) => ~service.file.exists
          /\ (service.file.exists
                /\ (~service.file.readable \/ service.file.content \in {"{", ""}))
             => ~svc_ret'.ok]_vars

\* what C34 says of a call of initialize_all, given which systems count as able to
\* be created
InitializeAllRule(Creatable(_, _)) ==
    LET r == service
        r2 == service'
        order == svc_ret'.value.order
        created == svc_ret'.value.created
        IsOn(id) == id \in DOMAIN r.feature_flags /\ r.feature_flags[id]
        Rank(id) == IF id \in DOMAIN r.priority THEN r.priority[id] ELSE 0
        Needs(id) == IF id \in DOMAIN r.system_dependencies
                     THEN {r.system_dependencies[id][k]
                           : k \in 1..Len(r.system_dependencies[id])}
                     ELSE {}
        requested == IF svc_ret'.arg = <<>> THEN DOMAIN r.priority
                     ELSE {svc_ret'.arg[1][k] : k \in 1..Len(svc_ret'.arg[1])}
        \* the factory when order[i] is reached, every enabled system before it created
        Reached(i) == r.systems \cup {order[j] : j \in {j \in 1..(i - 1) : IsOn(order[j])}}
        bad == {i \in 1..Len(order) : IsOn(order[i]) /\ ~(Needs(order[i]) \subseteq Reached(i))}
    IN  /\ {order[i] : i \in 1..Len(order)} = requested
        /\ \A i, j \in 1..Len(order) : i < j => Rank(order[i]) >= Rank(order[j])
        /\ \A i \in 1..Len(created) :
              Needs(created[i]) \subseteq r.systems \cup {created[j] : j \in 1..(i - 1)}
        /\ r2.systems = r.systems \cup {created[i] : i \in 1..Len(created)}
        /\ bad # {} =>
              /\ ~svc_ret'.ok
              /\ r2.initialized = r.initialized
              /\ \A i \in 1..Len(order) :
                    (\E b \in bad : b <= i) => (order[i] \in r2.systems <=> order[i] \in r.systems)
        /\ (bad = {} /\ \A i \in 1..Len(order) : IsOn(order[i]) => Creatable(r, order[i])) =>
              /\ svc_ret'.ok
              /\ r2.initialized
              /\ r2.systems = r.systems \cup {order[i] : i \in {i \in 1..Len(order) : IsOn(order[i])}}

DottedKeysRule(NeverSet(_)) ==
    LET root == [t |-> "Object", v |-> service.config]
        root_after == [t |-> "Object", v |-> service'.config]
        IsProperPrefix(p, k) ==
            /\ Len(Split(p)) < Len(Split(k))
            /\ SubSeq(Split(k), 1, Len(Split(p))) = Split(p)
        Keys == {"a", "b", "a.b", "a.b.c"}
        Crosses(k) == \E p \in Keys :
                         /\ IsProperPrefix(p, k)
                         /\ GetDotted(root, p) # <<>>
                         /\ GetDotted(root, p)[1].t # "Object"
    IN  /\ svc_ret'.op = "set" =>
              \A p \in Keys :
                 IsProperPrefix(p, svc_ret'.arg[1]) =>
                    /\ GetDotted(root_after, p) # <<>>
                    /\ GetDotted(root_after, p)[1].t = "Object"
        /\ svc_ret'.op = "get" =>
              /\ svc_ret.op = "set" /\ svc_ret.arg[1] = svc_ret'.arg[1] =>
                    svc_ret'.value = svc_ret.arg[2]
              /\ NeverSet(svc_ret'.arg[1]) \/ Crosses(svc_ret'.arg[1]) =>
                    svc_ret'.value = svc_ret'.arg[2]

C21_BroadcastInOrder ==
    [][step_event'.kind # None =>
          LET systems == engine.systems
              n == Len(systems)
              On(i, st) == IF systems[i] = "inventory" THEN InventoryOnEvent(st, step_event')
                           ELSE BasicWorldOnEvent(st, step_event')
              S[i \in 0..n] == IF i = 0 THEN engine.state ELSE On(i, S[i - 1]).state
              L[i \in 0..n] == IF i = 0 THEN <<>> ELSE L[i - 1] \o On(i, S[i - 1]).lines
          IN  /\ step_out'.invoked = systems
              /\ step_out'.lines = L[n]
              /\ engine'.state = S[n]
              /\ engine'.systems = systems]_vars

\* a look that two world systems both answered: the room is described twice
C21_Witness ==
    /\ step_event.kind = "Look"
    /\ step_out.invoked = <<"inventory", "basic_world", "basic_world">>
    /\ step_out.lines = << <<"Quiet Village">>, <<"A small village">>, <<"You see:">>,
                           <<"- ", "Ancient Key">>, <<"Exits: ", {"north"}>>,
                           <<"Quiet Village">>, <<"A small village">>, <<"You see:">>,
                           <<"- ", "Ancient Key">>, <<"Exits: ", {"north"}>> >>

\* C25: each of the verbs quit, exit and q terminates the session: processing it
\* sets the game-over flag, and no other command does.
C25_QuitVerbsEndSession ==
    [][/\ (parsed'.called /\ parsed'.ok) =>
             LET verb == ToLowercase(SplitWhitespace(parsed'.input)[1])
             IN  IF verb \in {"quit", "exit", "q"} THEN engine'.state.is_over
                 ELSE engine'.state.is_over = engine.state.is_over
       /\ (step_event'.kind \notin {None, "Quit"}) =>
             engine'.state.is_over = engine.state.is_over]_vars

\* the input is empty or white space alone
Blank(input) == \A i \in 1..Len(input) : input[i] = " "

\* C26: Command::parse returns ParseError::Empty, and never an Unknown command,
\* exactly for inputs that are empty or consist only of white space; every other
\* input parses to a command.
C26_EmptyExactlyForBlank ==
    [][parsed'.called =>
          IF Blank(parsed'.input)
          THEN ~parsed'.ok /\ parsed'.cmd.kind = None
          ELSE /\ parsed'.ok
               /\ parsed'.cmd.kind \in {"Help", "Look", "Inventory", "Move", "Take", "Drop",
                                        "Use", "Say", "Quit", "Unknown"}]_vars

\* a line of two spaces was parsed, and the engine was not stepped
C26_Witness ==
    /\ parsed.called /\ parsed.input = <<" ", " ">>
    /\ ~parsed.ok
    /\ step_event = NoCommand

\* C27: the verb is matched whatever its letter case, while the argument of
\* take/get, drop, use and say is the remainder of the input in its original
\* casing: its words are the words typed after the verb.
C27_VerbFoldedArgumentKept ==
    [][(parsed'.called /\ parsed'.ok) =>
          LET words == SplitWhitespace(parsed'.input)
              verb == ToLowercase(words[1])
              cmd == parsed'.cmd
          IN  /\ (verb \in {"take", "get", "drop", "use", "say"} /\ Len(words) > 1) =>
                    /\ cmd.kind = CASE verb \in {"take", "get"} -> "Take" [] verb = "drop" -> "Drop"
                                    [] verb = "use" -> "Use" [] verb = "say" -> "Say"
                    /\ SplitWhitespace(Lexemes(cmd.arg)) = Tail(words)
              /\ verb \in {"help", "?"} => cmd.kind = "Help"
              /\ verb \in {"look", "l"} => cmd.kind = "Look"
              /\ verb \in {"inv", "inventory", "i"} => cmd.kind = "Inventory"
              /\ verb \in {"quit", "exit"} => cmd.kind = "Quit"
              /\ verb \in {"n", "north", "s", "south", "e", "east", "w", "west"} =>
                    cmd.kind = "Move"]_vars

\* 'TAKE Ancient Key' was parsed to Take('Ancient Key')
C27_Witness ==
    /\ parsed.called /\ parsed.input = <<"TAKE", " ", "Ancient", " ", "Key">>
    /\ parsed.ok /\ parsed.cmd = [kind |-> "Take", arg |-> "Ancient Key"]

\* C28: take/get, drop, use and say with an empty remainder parse to Unknown, and
\* go/move parse to Move only when the next token is one of the four canonical
\* directions (n/north, s/south, e/east, w/west) and to Unknown otherwise.
C28_MissingArgumentIsUnknown ==
    [][(parsed'.called /\ parsed'.ok) =>
          LET words == SplitWhitespace(parsed'.input)
              verb == ToLowercase(words[1])
              cmd == parsed'.cmd
              Canonical == [n |-> "north", north |-> "north", s |-> "south", south |-> "south",
                            e |-> "east", east |-> "east", w |-> "west", west |-> "west"]
          IN  /\ (verb \in {"take", "get", "drop", "use", "say"} /\ Len(words) = 1) =>
                    cmd.kind = "Unknown"
              /\ verb \in {"go", "move"} =>
                    IF Len(words) > 1 /\ ToLowercase(words[2]) \in DOMAIN Canonical
                    THEN cmd = [kind |-> "Move", arg |-> Canonical[ToLowercase(words[2])]]
                    ELSE cmd.kind = "Unknown"]_vars

\* 'take ' with nothing after it was parsed to Unknown
C28_Witness ==
    /\ parsed.called /\ parsed.input = <<"take", " ">>
    /\ parsed.ok /\ parsed.cmd.kind = "Unknown"

Named(list, name) == {i \in 1..Len(list) : ToLowercase(list[i].name) = ToLowercase(name)}

\* C16: taking an item that is in the player's current room puts it in the inventory
\* and removes it from that room's listing; dropping an inventory item places it in
\* the room the player occupies at the time of the drop and in no other room.
C16_TakeAndDropUseCurrentRoom ==
    [][LET st == engine.state
           st2 == engine'.state
           here == st.player.location
           inv == st.player.inventory
       IN  /\ (step_event'.kind = "Take" /\ Named(st.world[here].items, step_event'.arg) # {}) =>
                 \E i \in Named(st.world[here].items, step_event'.arg) :
                    /\ st2.player.inventory = Append(inv, st.world[here].items[i])
                    /\ st2.world[here].items = RemoveAt(st.world[here].items, i)
                    /\ \A r \in DOMAIN st.world \ {here} : st2.world[r] = st.world[r]
           /\ (step_event'.kind = "Drop" /\ Named(inv, step_event'.arg) # {}) =>
                 \E i \in Named(inv, step_event'.arg) :
                    /\ st2.player.inventory = RemoveAt(inv, i)
                    /\ st2.world[here].items = Append(st.world[here].items, inv[i])
                    /\ \A r \in DOMAIN st.world \ {here} : st2.world[r] = st.world[r]]_vars

\* the key taken in the village has just been dropped in the forest
C16_Witness ==
    /\ step_event.kind = "Drop"
    /\ engine.state.player.location = "forest"
    /\ engine.state.player.inventory = <<>>
    /\ Named(engine.state.world["forest"].items, "Ancient Key") # {}
    /\ Named(engine.state.world["village"].items, "Ancient Key") = {}

\* C40: any sequence of commands conserves items: every item of the initial world is
\* at all times in exactly one place, one room's item list or the player's
\* inventory; a take or drop that fails (no such item) and every look, inventory,
\* help or move command leaves all item lists unchanged
C40_ItemsConserved ==
    [][LET st == engine.state
           st2 == engine'.state
           here == st.player.location
           Times(list, x) == Cardinality({i \in 1..Len(list) : list[i] = x})
           RECURSIVE InRooms(_, _)
           InRooms(rooms, x) ==
               IF rooms = {} THEN 0
               ELSE LET r == CHOOSE r \in rooms : TRUE
                    IN  Times(st2.world[r].items, x) + InRooms(rooms \ {r}, x)
           initial == UNION { {NewGameState.world[r].items[i]
                               : i \in 1..Len(NewGameState.world[r].items)}
                              : r \in DOMAIN NewGameState.world }
           idle == \/ step_event'.kind \in {"Look", "Inventory", "Help", "Move"}
                   \/ step_event'.kind = "Take" /\ Named(st.world[here].items, step_event'.arg) = {}
                   \/ step_event'.kind = "Drop" /\ Named(st.player.inventory, step_event'.arg) = {}
       IN  /\ \A x \in initial :
                 InRooms(DOMAIN st2.world, x) + Times(st2.player.inventory, x) = 1
           /\ idle => /\ st2.player.inventory = st.player.inventory
                      /\ \A r \in DOMAIN st.world : st2.world[r].items = st.world[r].items]_vars

\* the key was taken in the village and a drop of something the player does not
\* carry has just failed in the forest: the key is in the inventory and in no room
C40_Witness ==
    /\ step_event.kind = "Drop"
    /\ Named(engine.state.player.inventory, step_event.arg) = {}
    /\ engine.state.player.location = "forest"
    /\ Named(engine.state.player.inventory, "Ancient Key") # {}
    /\ \A r \in DOMAIN engine.state.world : engine.state.world[r].items = <<>>

====
